---- MODULE Spec2Model ----
(***************************************************************************)
(* Model of the durable work queue of claude-mem                           *)
(* (PostgresPendingMessageStore): the pending_messages table, the clock    *)
(* read by Date.now(), and one action per queue operation.  Every          *)
(* operation that is a single SQL statement is one atomic action;          *)
(* markFailed, which awaits a SELECT and then an UPDATE, is two actions    *)
(* so that other calls can run between its read and its write.             *)
(* Beside the queue: the session store (PostgresSessionStore: session      *)
(* upsert, store calls, imports, timeline queries) over the tables db, and *)
(* the replication fan-out (replication-utils), each with scenario         *)
(* specifications of their own that leave the queue untouched.             *)
(***************************************************************************)
EXTENDS Integers, Sequences, FiniteSets, TLC

(* ------------------------------ bounds --------------------------------- *)
MaxJobs == 2
MaxClock == 2
MaxThreshold == 1
MaxRetriesBound == 2
NumSessions == 2
NumCallers == 1
NumClaimants == 3
MaxRetention == 1
MaxCrashes == 1
MaxRows == 2
MaxPrompts == 2
MaxImportEpochs == 2
NumStorers == 2
MaxEpochs == 5
MaxDepth == 2
MaxEntityId == 2
MaxPortEntries == 2
NumFailers == 2
MaxDeliveries == 5

(* --------------------------- program values ---------------------------- *)
\* the value DatabaseManager.initialize passes to the queue's constructor
DefaultMaxRetries == 3
\* DEFAULT_PRIMARY_PORT
DefaultPrimaryPort == 37777

\* SQL NULL in a BIGINT epoch column (no epoch is negative)
NullEpoch == 0 - 1
\* SQL NULL in a TEXT column
NULL == "NULL"

Ids == 1..MaxJobs
SessionIds == 1..NumSessions
Callers == 1..NumCallers
Claimants == 1..NumClaimants
Thresholds == 0..MaxThreshold
RetryLimits == 1..MaxRetriesBound
Retentions == 0..MaxRetention

\* a row that does not exist (never inserted, or deleted)
NoRow == [status |-> "absent"]
\* a caller with no markFailed in flight
NoCall == [id |-> 0]

\* PendingMessage values handed to enqueue: an observation whose
\* tool_response is the empty string (falsy) and a summarize request, which
\* carries no tool payload.
Messages ==
  { [type |-> "observation", tool_input |-> "objA", tool_response |-> "empty",
     last_user_message |-> "undefined"],
    [type |-> "summarize", tool_input |-> "undefined", tool_response |-> "undefined",
     last_user_message |-> "text"] }

\* JavaScript truthiness of a message field
Truthy(v) == v \notin {"undefined", "empty"}

\* JSON.stringify of a message field
Stringify(v) ==
  CASE v = "objA" -> "{\"a\":1}"
    [] v = "empty" -> "\"\""
    [] OTHER -> v

\* message.tool_input ? JSON.stringify(message.tool_input) : null
StoredJson(v) == IF Truthy(v) THEN Stringify(v) ELSE NULL
\* message.last_user_message || null
StoredText(v) == IF Truthy(v) THEN v ELSE NULL

VARIABLES
  maxRetries,   \* the queue's construction-time parameter
  rows,         \* the pending_messages table: id -> row, or NoRow
  nextId,       \* the SERIAL sequence of pending_messages.id
  now,          \* the value Date.now() returns
  calls,        \* caller -> its markFailed call between SELECT and UPDATE
  enqueued,     \* history: id -> the payload columns enqueue stored
  pairs,        \* retry scenario: markProcessing;markFailed pairs completed
  phase,        \* retry scenario: the driver's position
  claimants,    \* claim scenario: callers that have not yet called markProcessing
  wins,         \* claim scenario: pending->processing changes observed
  worker,       \* poll loop: its position, the job it holds, crashes so far
  db,           \* session store: the tables sdk_sessions, observations,
                \* session_summaries and user_prompts, each a set of rows
  storing,      \* caller -> its storeObservation / storeSummary call in flight
  timeline,     \* the latest timeline query and what it returned
  repl,         \* replication: the configured ports and the replicate* call
  fanOut,       \* the fanOutRequest call and the fetches it started
  manager,      \* the DatabaseManager: its fields and what it has closed
  importing     \* the import handler: the store calls it has made

\* the variables of the subsystems beside the queue
serviceVars == <<fanOut, manager, importing>>
sideVars == <<worker, db, storing, timeline, repl, serviceVars>>
vars == <<maxRetries, rows, nextId, now, calls, enqueued, pairs, phase,
          claimants, wins, sideVars>>
scenarioVars == <<pairs, phase, claimants, wins>>

Exists(id) == rows[id] # NoRow
Live == {id \in Ids : Exists(id)}

\* the payload columns of a row
Payload(r) == [tool_input |-> r.tool_input, tool_response |-> r.tool_response,
               last_user_message |-> r.last_user_message,
               message_type |-> r.message_type]

(* ------------------------- WHERE clauses ------------------------------- *)
\* mutant: the claim UPDATE without its status test
MarkProcessingWhereAny(r) == TRUE

\* markProcessing: WHERE id = $2 AND status = 'pending'
MarkProcessingWhere(r) == r.status = "pending"

\* mutant: the completion UPDATE also taking a job nobody claimed
MarkProcessedWhereNotDone(r) == r.status \in {"pending", "processing"}

\* markProcessed: WHERE id = $2 AND status = 'processing'
MarkProcessedWhere(r) == r.status = "processing"

\* mutant: the retry UPDATE without its status test
RetryMessageWhereAny(r) == TRUE

\* retryMessage: WHERE id = $1 AND status IN ('pending', 'processing', 'failed')
RetryMessageWhere(r) == r.status \in {"pending", "processing", "failed"}

\* markFailed's UPDATE statements: WHERE id = $1 (the status is not tested)
MarkFailedWhere(r) == TRUE

\* mutant: the retry test counting the failure at hand
ShouldRetryCountingThisOne(retry_count) == retry_count + 1 < maxRetries

\* mutant: the retry test with <=
ShouldRetryInclusive(retry_count) == retry_count <= maxRetries

\* markFailed: msg.retry_count < this.maxRetries
ShouldRetry(retry_count) == retry_count < maxRetries

\* mutant: the stuck test with <= for <
StuckWhereInclusive(r, cutoff) ==
  /\ r.status = "processing"
  /\ r.started_processing_at_epoch # NullEpoch
  /\ r.started_processing_at_epoch <= cutoff

\* retryAllStuck, resetStuckMessages:
\*   WHERE status = 'processing' AND started_processing_at_epoch < $1
\* (a comparison with NULL is not true in SQL)
StuckWhere(r, cutoff) ==
  /\ r.status = "processing"
  /\ r.started_processing_at_epoch # NullEpoch
  /\ r.started_processing_at_epoch < cutoff

\* retryAllStuck: const cutoff = Date.now() - thresholdMs
RetryAllStuckCutoff(thresholdMs) == now - thresholdMs

\* resetStuckMessages:
\*   const cutoff = thresholdMs === 0 ? Date.now() : Date.now() - thresholdMs
ResetStuckCutoff(thresholdMs) == IF thresholdMs = 0 THEN now ELSE now - thresholdMs

\* mutant: the forced return to pending also starts the retries afresh
BackToPendingForgettingRetries(r) ==
  [r EXCEPT !.status = "pending", !.started_processing_at_epoch = NullEpoch,
            !.retry_count = 0]

\* mutant: SET status = 'pending' alone
BackToPendingKeepingStart(r) == [r EXCEPT !.status = "pending"]

\* SET status = 'pending', started_processing_at_epoch = NULL
BackToPending(r) ==
  [r EXCEPT !.status = "pending", !.started_processing_at_epoch = NullEpoch]

(* --------------------------- the operations ---------------------------- *)
\* Each operation is given as the table it leaves (XxxRows), the value it
\* returns (XxxReturn) and the action that applies it (XxxOp).

\* enqueue(sessionDbId, claudeSessionId, message): the row inserted
NewRow(s, m) ==
  [session_db_id |-> s,
   message_type |-> m.type,
   tool_input |-> StoredJson(m.tool_input),
   tool_response |-> StoredJson(m.tool_response),
   last_user_message |-> StoredText(m.last_user_message),
   status |-> "pending",
   retry_count |-> 0,
   started_processing_at_epoch |-> NullEpoch,
   completed_at_epoch |-> NullEpoch]

\* INSERT INTO pending_messages ... RETURNING id
EnqueueRows(s, m) == [rows EXCEPT ![nextId] = NewRow(s, m)]
EnqueueReturn == nextId

EnqueueOp(s, m) ==
  /\ nextId <= MaxJobs
  /\ rows' = EnqueueRows(s, m)
  /\ enqueued' = [enqueued EXCEPT ![nextId] = Payload(NewRow(s, m))]
  /\ nextId' = nextId + 1
  /\ UNCHANGED <<maxRetries, now, calls>>

\* mutant: the WHERE clause without the session
PendingOfAnySession(t, s) ==
  {id \in Ids : t[id] # NoRow /\ t[id].status = "pending"}

\* peekPending(sessionDbId) and getAllPending(sessionDbId) on table t:
\*   WHERE session_db_id = $1 AND status = 'pending'
PendingOf(t, s) ==
  {id \in Ids : t[id] # NoRow /\ t[id].session_db_id = s /\ t[id].status = "pending"}

\* mutant: ORDER BY id DESC
LastById(S) == CHOOSE id \in S : \A other \in S : id >= other

\*   ORDER BY id ASC LIMIT 1
FirstById(S) == CHOOSE id \in S : \A other \in S : id <= other

\* result.rows[0] || null: the id of the row returned, 0 for null
PeekPending(t, s) == IF PendingOf(t, s) = {} THEN 0 ELSE FirstById(PendingOf(t, s))

\* rows in ORDER BY id ASC
RECURSIVE AscendingById(_)
AscendingById(S) ==
  IF S = {} THEN <<>> ELSE <<FirstById(S)>> \o AscendingById(S \ {FirstById(S)})

\* getAllPending(sessionDbId): result.rows, as the ids of the rows
GetAllPending(t, s) == AscendingById(PendingOf(t, s))

\* toPendingMessage(persistent): a column read back into a message field
ParseJson(v) ==
  CASE v = "{\"a\":1}" -> "objA"
    [] v = "\"\"" -> "empty"
    [] OTHER -> v

\* persistent.tool_input ? JSON.parse(persistent.tool_input) : undefined
LoadedJson(v) == IF v = NULL \/ v = "" THEN "undefined" ELSE ParseJson(v)
\* persistent.last_user_message || undefined
LoadedText(v) == IF v = NULL \/ v = "" THEN "undefined" ELSE v

ToPendingMessage(r) ==
  [type |-> r.message_type,
   tool_input |-> LoadedJson(r.tool_input),
   tool_response |-> LoadedJson(r.tool_response),
   last_user_message |-> LoadedText(r.last_user_message)]

\* markProcessing(messageId)
MarkProcessingRows(id) ==
  IF Exists(id) /\ MarkProcessingWhere(rows[id])
  THEN [rows EXCEPT ![id].status = "processing",
                    ![id].started_processing_at_epoch = now]
  ELSE rows

MarkProcessingOp(id) ==
  /\ rows' = MarkProcessingRows(id)
  /\ UNCHANGED <<maxRetries, nextId, now, calls, enqueued>>

\* markProcessed(messageId)
MarkProcessedRows(id) ==
  IF Exists(id) /\ MarkProcessedWhere(rows[id])
  THEN [rows EXCEPT ![id].status = "processed",
                    ![id].completed_at_epoch = now,
                    ![id].tool_input = NULL,
                    ![id].tool_response = NULL]
  ELSE rows

MarkProcessedOp(id) ==
  /\ rows' = MarkProcessedRows(id)
  /\ UNCHANGED <<maxRetries, nextId, now, calls, enqueued>>

\* markFailed's const now = Date.now(), which only the UPDATE to 'failed'
\* reads: it is kept for that branch alone
FailedAt(retry_count) == IF ShouldRetry(retry_count) THEN NullEpoch ELSE now

\* markFailed(messageId), up to the SELECT: const now = Date.now();
\* SELECT retry_count ...; if (!msg) return
MarkFailedCall(id) ==
  IF Exists(id)
  THEN [id |-> id, now |-> FailedAt(rows[id].retry_count),
        retry_count |-> rows[id].retry_count]
  ELSE NoCall

MarkFailedReadOp(c, id) ==
  /\ calls[c] = NoCall
  /\ calls' = [calls EXCEPT ![c] = MarkFailedCall(id)]
  /\ UNCHANGED <<maxRetries, rows, nextId, now, enqueued>>

\* markFailed, the UPDATE chosen by the retry_count that was read
MarkFailedUpdate(r, call) ==
  IF ShouldRetry(call.retry_count)
  THEN [r EXCEPT !.status = "pending",
                 !.retry_count = r.retry_count + 1,
                 !.started_processing_at_epoch = NullEpoch]
  ELSE [r EXCEPT !.status = "failed",
                 !.completed_at_epoch = call.now]

MarkFailedRows(call) ==
  IF Exists(call.id) /\ MarkFailedWhere(rows[call.id])
  THEN [rows EXCEPT ![call.id] = MarkFailedUpdate(rows[call.id], call)]
  ELSE rows

MarkFailedWriteOp(c) ==
  /\ calls[c] # NoCall
  /\ rows' = MarkFailedRows(calls[c])
  /\ calls' = [calls EXCEPT ![c] = NoCall]
  /\ UNCHANGED <<maxRetries, nextId, now, enqueued>>

\* an UPDATE ... SET status = 'pending', started_processing_at_epoch = NULL
\* over the rows in hit
ResetRows(hit) == [id \in Ids |-> IF id \in hit THEN BackToPending(rows[id]) ELSE rows[id]]

\* retryMessage(messageId): returns (result.rowCount || 0) > 0
RetryMessageHit(id) == {i \in Live : i = id /\ RetryMessageWhere(rows[i])}
RetryMessageRows(id) == ResetRows(RetryMessageHit(id))
RetryMessageReturn(id) == Cardinality(RetryMessageHit(id)) > 0

RetryMessageOp(id) ==
  /\ rows' = RetryMessageRows(id)
  /\ UNCHANGED <<maxRetries, nextId, now, calls, enqueued>>

\* resetProcessingToPending(sessionDbId): returns result.rowCount || 0
ResetProcessingHit(s) ==
  {id \in Live : rows[id].session_db_id = s /\ rows[id].status = "processing"}
ResetProcessingToPendingRows(s) == ResetRows(ResetProcessingHit(s))
ResetProcessingToPendingReturn(s) == Cardinality(ResetProcessingHit(s))

ResetProcessingToPendingOp(s) ==
  /\ rows' = ResetProcessingToPendingRows(s)
  /\ UNCHANGED <<maxRetries, nextId, now, calls, enqueued>>

\* the rows the stuck-message UPDATE matches for a cutoff
StuckHit(cutoff) == {id \in Live : StuckWhere(rows[id], cutoff)}

\* retryAllStuck(thresholdMs): returns result.rowCount || 0
RetryAllStuckRows(thresholdMs) == ResetRows(StuckHit(RetryAllStuckCutoff(thresholdMs)))
RetryAllStuckReturn(thresholdMs) == Cardinality(StuckHit(RetryAllStuckCutoff(thresholdMs)))

RetryAllStuckOp(thresholdMs) ==
  /\ rows' = RetryAllStuckRows(thresholdMs)
  /\ UNCHANGED <<maxRetries, nextId, now, calls, enqueued>>

\* resetStuckMessages(thresholdMs): returns result.rowCount || 0
ResetStuckMessagesRows(thresholdMs) == ResetRows(StuckHit(ResetStuckCutoff(thresholdMs)))
ResetStuckMessagesReturn(thresholdMs) == Cardinality(StuckHit(ResetStuckCutoff(thresholdMs)))

ResetStuckMessagesOp(thresholdMs) ==
  /\ rows' = ResetStuckMessagesRows(thresholdMs)
  /\ UNCHANGED <<maxRetries, nextId, now, calls, enqueued>>

\* abortMessage(messageId): DELETE FROM pending_messages WHERE id = $1
AbortMessageRows(id) == [rows EXCEPT ![id] = NoRow]
AbortMessageReturn(id) == Exists(id)

AbortMessageOp(id) ==
  /\ rows' = AbortMessageRows(id)
  /\ UNCHANGED <<maxRetries, nextId, now, calls, enqueued>>

\* the processed jobs, the only rows cleanupProcessed reads or deletes
ProcessedIds == {id \in Live : rows[id].status = "processed"}

\* mutant: the retention subquery ordered ASC
OldestFirst(a, b) ==
  \/ b.completed_at_epoch = NullEpoch
  \/ /\ a.completed_at_epoch # NullEpoch
     /\ a.completed_at_epoch <= b.completed_at_epoch

\* ORDER BY completed_at_epoch DESC: row a may stand before row b (NULL
\* sorts first in a descending order; rows with equal times in either order)
NewestFirst(a, b) ==
  \/ a.completed_at_epoch = NullEpoch
  \/ /\ b.completed_at_epoch # NullEpoch
     /\ a.completed_at_epoch >= b.completed_at_epoch

\* SELECT id ... WHERE status = 'processed' ORDER BY completed_at_epoch DESC
\* LIMIT $1: the id sets the subquery can return, built row by row from the
\* head of the order
RECURSIVE RetainedSets(_, _)
RetainedSets(S, n) ==
  IF n = 0 \/ S = {} THEN {{}}
  ELSE UNION { { K \cup {h} : K \in RetainedSets(S \ {h}, n - 1) } :
               h \in {x \in S : \A y \in S : NewestFirst(rows[x], rows[y])} }

\* cleanupProcessed(retentionCount):
\*   DELETE ... WHERE status = 'processed' AND id NOT IN (<retained>)
\* returns result.rowCount || 0
CleanupProcessedRows(retained) ==
  [id \in Ids |->
     IF Exists(id) /\ rows[id].status = "processed" /\ id \notin retained
     THEN NoRow ELSE rows[id]]
CleanupProcessedReturn(retained) ==
  Cardinality({id \in Live : rows[id].status = "processed" /\ id \notin retained})

CleanupProcessedOp(retentionCount) ==
  /\ \E retained \in RetainedSets(ProcessedIds, retentionCount) :
       rows' = CleanupProcessedRows(retained)
  /\ UNCHANGED <<maxRetries, nextId, now, calls, enqueued>>

\* time passes between two calls
TickOp ==
  /\ now < MaxClock
  /\ now' = now + 1
  /\ UNCHANGED <<maxRetries, rows, nextId, calls, enqueued>>

(* ------------------- the queue under arbitrary callers ----------------- *)
QueueInit ==
  /\ rows = [id \in Ids |-> NoRow]
  /\ enqueued = [id \in Ids |-> NoRow]
  /\ nextId = 1
  /\ now = 0
  /\ calls = [c \in Callers |-> NoCall]

\* no poll loop is running
NoWorker == [at |-> "none", job |-> 0, crashes |-> 0]
\* the four tables after the migrations, before any insert
EmptyDb == [sessions |-> {}, observations |-> {}, summaries |-> {}, prompts |-> {}]
Storers == 1..NumStorers
\* a caller that has not called storeObservation / storeSummary
NotStoring == [pc |-> "idle"]
\* no timeline query has run
NoTimeline == [called |-> FALSE]
(* =========================== replication =============================== *)
\* ports named in CLAUDE_MEM_WORKER_PORTS
AdditionalPorts == {38888, 39999}
\* the port numbers getWorkerPort can return: the default, or one set in
\* CLAUDE_MEM_WORKER_PORT
PrimaryPorts == {DefaultPrimaryPort, 38888}
\* the entries of CLAUDE_MEM_WORKER_PORTS after split(',') and parseInt:
\* ports, the primary's number among them, and numbers outside 1024..65535
PortEntries == AdditionalPorts \cup {DefaultPrimaryPort, 80, 70000}
RECURSIVE PortEntryLists(_)
PortEntryLists(n) ==
  IF n = 0 THEN {<<>>}
  ELSE PortEntryLists(n - 1) \cup
       {Append(l, p) : l \in {k \in PortEntryLists(n - 1) : Len(k) = n - 1}, p \in PortEntries}
\* a configuration: the primary port followed by the entries of
\* CLAUDE_MEM_WORKER_PORTS (none when the variable is not set)
PortConfigurations ==
  {<<primaryPort>> \o l : primaryPort \in PrimaryPorts, l \in PortEntryLists(MaxPortEntries)}

\* Array.from(new Set(...)): each value once, in insertion order
RECURSIVE InsertionOrder(_)
InsertionOrder(s) ==
  IF s = <<>> THEN <<>>
  ELSE LET before == InsertionOrder(SubSeq(s, 1, Len(s) - 1))
           last == s[Len(s)]
       IN IF \E i \in 1..Len(before) : before[i] = last THEN before
          ELSE Append(before, last)

\* getWorkerPorts: a Set holding the primary port and the entries of
\* CLAUDE_MEM_WORKER_PORTS that are within 1024..65535; returned as the
\* primary port followed by the other members of the Set
GetWorkerPorts(primaryPort, additionalPortsEnv) ==
  LET additionalPorts == SelectSeq(additionalPortsEnv, LAMBDA p : p >= 1024 /\ p <= 65535)
      ports == InsertionOrder(<<primaryPort>> \o additionalPorts)
  IN <<primaryPort>> \o SelectSeq(ports, LAMBDA p : p # primaryPort)

\* the configuration and the worker ports computed from it (primary
\* first), no replicate* call made
NoReplication(configured) ==
  [configured |-> configured, ports |-> GetWorkerPorts(configured[1], Tail(configured)), at |-> "idle", kind |-> "none", data |-> <<>>, todo |-> <<>>,
   sent |-> <<>>, answers |-> <<>>, warnings |-> <<>>]
\* no Response object
NoResponse == [port |-> 0, ok |-> FALSE]
\* no fanOutRequest call made
NoFanOut ==
  [ports |-> <<DefaultPrimaryPort>>, at |-> "idle", pending |-> {}, results |-> <<>>,
   warnings |-> {}, response |-> NoResponse]
\* process.env as DatabaseManager.initialize reads it
Environments ==
  [CLAUDE_MEM_DATABASE : {"sqlite", "postgres"}, CLAUDE_MEM_DATABASE_URL : BOOLEAN]
\* new DatabaseManager(): the field initialisers; nothing closed
NewManager(env) ==
  [env |-> env, sessionStore |-> NULL, sessionSearch |-> NULL, chromaSync |-> NULL,
   pendingStore |-> NULL, backend |-> "sqlite",
   initialize |-> "not called", close |-> "not called", had |-> {}, closed |-> <<>>,
   got |-> <<>>]
\* no import request received
NoImport == [at |-> "idle"]
ServiceIdle ==
  /\ fanOut = NoFanOut
  /\ manager = NewManager([CLAUDE_MEM_DATABASE |-> "sqlite", CLAUDE_MEM_DATABASE_URL |-> FALSE])
  /\ importing = NoImport
SideIdle ==
  /\ worker = NoWorker
  /\ db = EmptyDb
  /\ storing = [c \in Storers |-> NotStoring]
  /\ timeline = NoTimeline
  /\ repl = NoReplication(<<DefaultPrimaryPort>>)
  /\ ServiceIdle

ScenarioIdle ==
  /\ pairs = 0
  /\ phase = "none"
  /\ claimants = {}
  /\ wins = 0

Init ==
  /\ maxRetries \in RetryLimits
  /\ QueueInit
  /\ ScenarioIdle
  /\ SideIdle

Tick == TickOp /\ UNCHANGED <<scenarioVars, sideVars>>
Enqueue == \E s \in SessionIds, m \in Messages : EnqueueOp(s, m) /\ UNCHANGED <<scenarioVars, sideVars>>
MarkProcessing == \E id \in Ids : MarkProcessingOp(id) /\ UNCHANGED <<scenarioVars, sideVars>>
MarkProcessed == \E id \in Ids : MarkProcessedOp(id) /\ UNCHANGED <<scenarioVars, sideVars>>
MarkFailedRead ==
  \E c \in Callers, id \in Ids : MarkFailedReadOp(c, id) /\ UNCHANGED <<scenarioVars, sideVars>>
MarkFailedWrite == \E c \in Callers : MarkFailedWriteOp(c) /\ UNCHANGED <<scenarioVars, sideVars>>
RetryMessage == \E id \in Ids : RetryMessageOp(id) /\ UNCHANGED <<scenarioVars, sideVars>>
ResetProcessingToPending ==
  \E s \in SessionIds : ResetProcessingToPendingOp(s) /\ UNCHANGED <<scenarioVars, sideVars>>
RetryAllStuck == \E t \in Thresholds : RetryAllStuckOp(t) /\ UNCHANGED <<scenarioVars, sideVars>>
ResetStuckMessages ==
  \E t \in Thresholds : ResetStuckMessagesOp(t) /\ UNCHANGED <<scenarioVars, sideVars>>
AbortMessage == \E id \in Ids : AbortMessageOp(id) /\ UNCHANGED <<scenarioVars, sideVars>>
CleanupProcessed ==
  \E n \in Retentions : CleanupProcessedOp(n) /\ UNCHANGED <<scenarioVars, sideVars>>

Next ==
  \/ Tick
  \/ Enqueue
  \/ MarkProcessing
  \/ MarkProcessed
  \/ MarkFailedRead
  \/ MarkFailedWrite
  \/ RetryMessage
  \/ ResetProcessingToPending
  \/ RetryAllStuck
  \/ ResetStuckMessages
  \/ AbortMessage
  \/ CleanupProcessed

Spec == Init /\ [][Next]_vars

(* ------------- scenario: one job failing again and again --------------- *)
\* A single driver enqueues one job and then applies markProcessing(id);
\* markFailed(id) to it in sequence; nothing else touches the queue.
MaxPairs == DefaultMaxRetries + 2
TheJob == 1
Driver == CHOOSE c \in Callers : TRUE

RetryInit ==
  /\ maxRetries \in 1..DefaultMaxRetries
  /\ QueueInit
  /\ pairs = 0
  /\ phase = "enqueue"
  /\ claimants = {}
  /\ wins = 0
  /\ SideIdle

RetryEnqueue ==
  /\ phase = "enqueue"
  /\ \E s \in SessionIds, m \in Messages : EnqueueOp(s, m)
  /\ phase' = "claim"
  /\ UNCHANGED <<pairs, claimants, wins, sideVars>>

RetryClaim ==
  /\ phase = "claim"
  /\ pairs < MaxPairs
  /\ MarkProcessingOp(TheJob)
  /\ phase' = "fail"
  /\ UNCHANGED <<pairs, claimants, wins, sideVars>>

RetryFailRead ==
  /\ phase = "fail"
  /\ MarkFailedReadOp(Driver, TheJob)
  /\ phase' = "update"
  /\ UNCHANGED <<pairs, claimants, wins, sideVars>>

RetryFailWrite ==
  /\ phase = "update"
  /\ MarkFailedWriteOp(Driver)
  /\ phase' = "claim"
  /\ pairs' = pairs + 1
  /\ UNCHANGED <<claimants, wins, sideVars>>

RetryTick == TickOp /\ UNCHANGED <<scenarioVars, sideVars>>

RetryNext ==
  \/ RetryEnqueue
  \/ RetryClaim
  \/ RetryFailRead
  \/ RetryFailWrite
  \/ RetryTick

SpecRetry == RetryInit /\ [][RetryNext]_vars

\* C2 as stated: after exactly maxRetries pairs markProcessing; markFailed
\* the job is failed with retry_count = maxRetries.
C2_FailedAfterMaxRetriesPairs ==
  (phase = "claim" /\ pairs = maxRetries) =>
    /\ rows[TheJob].status = "failed"
    /\ rows[TheJob].retry_count = maxRetries

\* C2 amended: each of the first maxRetries pairs leaves the job pending
\* with retry_count one higher, so after maxRetries pairs it is pending with
\* retry_count = maxRetries; the pair after that (number maxRetries + 1)
\* leaves it failed with retry_count = maxRetries, and it stays so.
C2_FailedAfterOneMorePair ==
  phase = "claim" =>
    IF pairs <= maxRetries
    THEN /\ rows[TheJob].status = "pending"
         /\ rows[TheJob].retry_count = pairs
    ELSE /\ rows[TheJob].status = "failed"
         /\ rows[TheJob].retry_count = maxRetries

\* with the program's maxRetries = 3 the 4th markFailed has just failed the job
C2_Witness ==
  /\ phase = "claim"
  /\ maxRetries = DefaultMaxRetries
  /\ pairs = maxRetries + 1
  /\ rows[TheJob].status = "failed"
  /\ rows[TheJob].retry_count = DefaultMaxRetries

(* ------------- scenario: concurrent claims of one job ------------------ *)
\* One pending job and NumClaimants callers that each call
\* markProcessing(id) once, in any order and at any time.
ClaimInit ==
  /\ maxRetries \in RetryLimits
  /\ QueueInit
  /\ pairs = 0
  /\ phase = "enqueue"
  /\ claimants = {}
  /\ wins = 0
  /\ SideIdle

ClaimEnqueue ==
  /\ phase = "enqueue"
  /\ \E s \in SessionIds, m \in Messages : EnqueueOp(s, m)
  /\ phase' = "race"
  /\ claimants' = Claimants
  /\ UNCHANGED <<pairs, wins, sideVars>>

\* a caller's markProcessing; wins counts the calls that moved the job
\* from pending to processing
ClaimCall ==
  /\ phase = "race"
  /\ \E c \in claimants :
       /\ MarkProcessingOp(TheJob)
       /\ claimants' = claimants \ {c}
  /\ wins' = IF rows[TheJob].status = "pending" /\ rows'[TheJob].status = "processing"
             THEN wins + 1 ELSE wins
  /\ UNCHANGED <<pairs, phase, sideVars>>

ClaimTick == TickOp /\ UNCHANGED <<scenarioVars, sideVars>>

ClaimNext ==
  \/ ClaimEnqueue
  \/ ClaimCall
  \/ ClaimTick

SpecClaim == ClaimInit /\ [][ClaimNext]_vars

\* C3: of the concurrent markProcessing calls on one pending job exactly one
\* moves it pending -> processing (the first to run); every other call
\* changes neither the status nor the recorded start time.
C3_ExactlyOneClaimWins ==
  /\ [](phase = "race" => wins = (IF claimants = Claimants THEN 0 ELSE 1))
  /\ [][(phase = "race" /\ claimants' # claimants /\ claimants # Claimants)
          => (rows' = rows /\ wins' = wins)]_vars

\* every caller has called, one won, and a loser called at a later time
C3_Witness ==
  /\ phase = "race"
  /\ claimants = {}
  /\ wins = 1
  /\ rows[TheJob].status = "processing"
  /\ rows[TheJob].started_processing_at_epoch < now

(* ======================= properties of the queue ======================= *)
Processing == {id \in Live : rows[id].status = "processing"}

\* the edges of the documented state machine
Edges ==
  { <<"pending", "processing">>, <<"processing", "processed">>,
    <<"processing", "pending">>, <<"processing", "failed">>,
    <<"failed", "pending">> }

\* C1: every change of a job's status is an edge of the state machine
\* pending -> processing -> {processed | pending | failed}, failed -> pending
\* (retryMessage); in particular no pending job becomes processed or failed
\* and no processed job changes status.
C1_StatusFollowsStateMachine ==
  [][\A id \in Ids :
       (Exists(id) /\ rows'[id] # NoRow /\ rows'[id].status # rows[id].status)
         => <<rows[id].status, rows'[id].status>> \in Edges]_vars

\* C4: resetStuckMessages(0) moves every processing job to pending with
\* start time NULL and returns their number, whatever their start times.
C4_ResetZeroResetsAllProcessing ==
  LET after == ResetStuckMessagesRows(0) IN
    /\ ResetStuckMessagesReturn(0) = Cardinality(Processing)
    /\ \A id \in Processing :
         /\ after[id].status = "pending"
         /\ after[id].started_processing_at_epoch = NullEpoch

\* a markFailed call that nothing interfered with: the job it read is still
\* there, is processing and has the retry_count the call read
SingleMarkFailed(call) ==
  /\ call # NoCall
  /\ Exists(call.id)
  /\ rows[call.id].status = "processing"
  /\ rows[call.id].retry_count = call.retry_count

\* C5: one markFailed on a processing job with retry_count r: if
\* r < maxRetries the job becomes pending with retry_count r + 1, start time
\* NULL and no completion time; otherwise it becomes failed with retry_count
\* unchanged and the completion time the call took from the clock.
\* markFailed on a missing id changes nothing.
C5_MarkFailedOutcome ==
  /\ \A c \in Callers :
       SingleMarkFailed(calls[c]) =>
         LET call == calls[c]
             r == call.retry_count
             after == MarkFailedRows(call)[call.id]
         IN IF r < maxRetries
            THEN /\ after.status = "pending"
                 /\ after.retry_count = r + 1
                 /\ after.started_processing_at_epoch = NullEpoch
                 /\ after.completed_at_epoch = NullEpoch
            ELSE /\ after.status = "failed"
                 /\ after.retry_count = r
                 /\ after.completed_at_epoch = call.now
                 /\ call.now # NullEpoch
  /\ \A id \in Ids : ~Exists(id) => MarkFailedCall(id) = NoCall

\* C6: markProcessed changes a job only when it is processing: it then sets
\* status processed, records the completion time and nulls tool_input and
\* tool_response; on a pending, failed, processed or missing job no row changes.
C6_MarkProcessedOnlyFromProcessing ==
  \A id \in Ids :
    LET after == MarkProcessedRows(id) IN
      IF Exists(id) /\ rows[id].status = "processing"
      THEN /\ after[id].status = "processed"
           /\ after[id].completed_at_epoch = now
           /\ after[id].tool_input = NULL
           /\ after[id].tool_response = NULL
           /\ \A other \in Ids \ {id} : after[other] = rows[other]
      ELSE after = rows

\* a processed job whose tool_input was erased and whose completion time is set
C6_Witness ==
  \E id \in Live :
    /\ rows[id].status = "processed"
    /\ rows[id].completed_at_epoch = now
    /\ now > 0
    /\ enqueued[id].tool_input # NULL
    /\ rows[id].tool_input = NULL

\* C7: every pending or processing job carries exactly the payload it was
\* enqueued with.
C7_PayloadKeptUntilProcessed ==
  \A id \in Live :
    rows[id].status \in {"pending", "processing"} => Payload(rows[id]) = enqueued[id]

\* enqueue inserts one pending row with retry_count 0 and no start or
\* completion time, whose columns are the message's fields as enqueue
\* converts them, and changes no other row
EnqueueInsertsOneRow(s, m) ==
  LET after == EnqueueRows(s, m)
      new == after[EnqueueReturn]
  IN /\ ~Exists(EnqueueReturn)
     /\ new.status = "pending"
     /\ new.retry_count = 0
     /\ new.started_processing_at_epoch = NullEpoch
     /\ new.completed_at_epoch = NullEpoch
     /\ new.session_db_id = s
     /\ new.tool_input = (IF Truthy(m.tool_input) THEN Stringify(m.tool_input) ELSE NULL)
     /\ new.tool_response =
          (IF Truthy(m.tool_response) THEN Stringify(m.tool_response) ELSE NULL)
     /\ \A id \in Ids \ {EnqueueReturn} : after[id] = rows[id]

\* C8 as stated: enqueue(S, job) inserts one new pending row and changes no
\* other; the peekPending(S) that follows returns that job, pending, with
\* the payload enqueue stored.
C8_EnqueueThenPeekReturnsTheJob ==
  \A s \in SessionIds, m \in Messages :
    nextId <= MaxJobs =>
      LET after == EnqueueRows(s, m) IN
        /\ EnqueueInsertsOneRow(s, m)
        /\ PeekPending(after, s) = EnqueueReturn
        /\ after[PeekPending(after, s)].status = "pending"
        /\ Payload(after[PeekPending(after, s)]) = Payload(NewRow(s, m))

\* C8 amended: enqueue(S, job) inserts one new pending row and changes no
\* other; the peekPending(S) that follows returns the pending job of S with
\* the smallest id, which is the new job exactly when S had no pending job,
\* and the row returned is the row as stored (a truthy field reads back as
\* it was given, a falsy one as undefined).
C8_EnqueueThenPeekReturnsOldest ==
  \A s \in SessionIds, m \in Messages :
    nextId <= MaxJobs =>
      LET after == EnqueueRows(s, m)
          got == PeekPending(after, s)
      IN /\ EnqueueInsertsOneRow(s, m)
         /\ got \in Ids
         /\ after[got].status = "pending"
         /\ after[got].session_db_id = s
         /\ \A id \in Ids :
              (after[id] # NoRow /\ after[id].session_db_id = s
                 /\ after[id].status = "pending") => got <= id
         /\ (got = EnqueueReturn) <=> (PendingOf(rows, s) = {})
         /\ got # EnqueueReturn => after[got] = rows[got]
         /\ got = EnqueueReturn =>
              \A f \in {"tool_input", "tool_response", "last_user_message"} :
                ToPendingMessage(after[got])[f] =
                  (IF Truthy(m[f]) THEN m[f] ELSE "undefined")

\* a session holds two pending jobs, so a peek after the second enqueue
\* returned the first
C8_Witness ==
  \E a, b \in Live :
    /\ a < b
    /\ rows[a].session_db_id = rows[b].session_db_id
    /\ rows[a].status = "pending" /\ rows[b].status = "pending"
    /\ rows[b].retry_count = 0
    /\ PeekPending(rows, rows[b].session_db_id) = a

\* C9: retryMessage(id) returns true and leaves the job pending with start
\* time NULL exactly when the job exists with status pending, processing or
\* failed; for a processed job or a missing id it returns false and changes
\* no row.
C9_RetryMessageOutcome ==
  \A id \in Ids :
    LET after == RetryMessageRows(id) IN
      /\ RetryMessageReturn(id) <=>
           (Exists(id) /\ rows[id].status \in {"pending", "processing", "failed"})
      /\ RetryMessageReturn(id) =>
           /\ after[id].status = "pending"
           /\ after[id].started_processing_at_epoch = NullEpoch
           /\ \A other \in Ids \ {id} : after[other] = rows[other]
      /\ ~RetryMessageReturn(id) => after = rows

\* a job that failed for good is pending again with its payload intact,
\* which only retryMessage does
C9_Witness ==
  \E id \in Live :
    /\ rows[id].status = "pending"
    /\ rows[id].completed_at_epoch # NullEpoch
    /\ rows[id].retry_count >= maxRetries
    /\ RetryMessageReturn(id)
    /\ Payload(rows[id]) = enqueued[id]
    /\ enqueued[id].tool_input # NULL

\* what a reset with a positive threshold must do: exactly the processing
\* jobs started before now - thresholdMs become pending with start time
\* NULL, their number is returned, and nothing else changes
ResetsExactlyTheOld(after, returned, thresholdMs) ==
  LET old == {id \in Live : /\ rows[id].status = "processing"
                            /\ rows[id].started_processing_at_epoch < now - thresholdMs}
  IN /\ returned = Cardinality(old)
     /\ \A id \in old :
          /\ after[id].status = "pending"
          /\ after[id].started_processing_at_epoch = NullEpoch
          /\ after[id].retry_count = rows[id].retry_count
          /\ after[id].completed_at_epoch = rows[id].completed_at_epoch
          /\ Payload(after[id]) = Payload(rows[id])
     /\ \A id \in Ids \ old : after[id] = rows[id]

\* C10: for thresholdMs > 0, resetStuckMessages and retryAllStuck change
\* exactly the processing jobs whose start time is older than
\* now - thresholdMs (pending, start time NULL, their number returned) and
\* leave every other job, every retry_count and every payload unchanged.
C10_ResetChangesExactlyTheStuck ==
  \A t \in Thresholds \ {0} :
    /\ ResetsExactlyTheOld(ResetStuckMessagesRows(t), ResetStuckMessagesReturn(t), t)
    /\ ResetsExactlyTheOld(RetryAllStuckRows(t), RetryAllStuckReturn(t), t)

\* two processing jobs, one old enough for threshold 1 and one not
C10_Witness ==
  \E a, b \in Processing :
    /\ rows[a].started_processing_at_epoch < now - 1
    /\ rows[b].started_processing_at_epoch >= now - 1
    /\ ResetStuckMessagesRows(1)[a].status = "pending"
    /\ ResetStuckMessagesRows(1)[b] = rows[b]
    /\ RetryAllStuckReturn(1) = 1

Min(a, b) == IF a <= b THEN a ELSE b

\* C11: cleanupProcessed(N) deletes only processed jobs; the processed jobs
\* it leaves are min(N, count) many and each of them completed no earlier
\* than every job it deleted; it returns the number of rows deleted; every
\* pending, processing and failed job is untouched.
C11_CleanupKeepsMostRecent ==
  \A n \in Retentions : \A retained \in RetainedSets(ProcessedIds, n) :
    LET after == CleanupProcessedRows(retained)
        deleted == {id \in Live : after[id] = NoRow}
        left == {id \in Live : after[id] # NoRow /\ after[id].status = "processed"}
    IN /\ deleted \subseteq ProcessedIds
       /\ \A id \in Live \ deleted : after[id] = rows[id]
       /\ \A id \in Ids \ Live : after[id] = NoRow
       /\ Cardinality(left) = Min(n, Cardinality(ProcessedIds))
       /\ \A k \in left, d \in deleted :
            rows[k].completed_at_epoch >= rows[d].completed_at_epoch
       /\ CleanupProcessedReturn(retained) = Cardinality(deleted)

\* two processed jobs with different completion times, of which
\* cleanupProcessed(1) deletes the older one
C11_Witness ==
  \E a \in ProcessedIds, b \in ProcessedIds :
    /\ rows[a].completed_at_epoch < rows[b].completed_at_epoch
    /\ RetainedSets(ProcessedIds, 1) = {{b}}
    /\ CleanupProcessedRows({b})[a] = NoRow
    /\ CleanupProcessedReturn({b}) = 1

(* ---------------- scenario: one poll loop with crashes ------------------ *)
\* A worker process that, when started, runs resetStuckMessages(0), then
\* loops: claim the oldest pending job of some session with markProcessing,
\* enrich it, finish with markProcessed or markFailed.  The process can
\* crash at any point (at most MaxCrashes times) and is then started again;
\* a crash loses what the process held in memory, never a row.  Jobs are
\* enqueued at any time; abortMessage is not used.
liveRest == <<scenarioVars, db, storing, timeline, repl, serviceVars>>

LiveInit ==
  /\ maxRetries \in RetryLimits
  /\ QueueInit
  /\ ScenarioIdle
  /\ worker = [at |-> "down", job |-> 0, crashes |-> 0]
  /\ db = EmptyDb
  /\ storing = [c \in Storers |-> NotStoring]
  /\ timeline = NoTimeline
  /\ repl = NoReplication(<<DefaultPrimaryPort>>)
  /\ ServiceIdle

LiveEnqueue ==
  /\ \E s \in SessionIds, m \in Messages : EnqueueOp(s, m)
  /\ UNCHANGED <<worker, liveRest>>

LiveStart ==
  /\ worker.at = "down"
  /\ ResetStuckMessagesOp(0)
  /\ worker' = [worker EXCEPT !.at = "poll", !.job = 0]
  /\ UNCHANGED liveRest

LivePoll ==
  /\ worker.at = "poll"
  /\ \E s \in SessionIds :
       /\ PeekPending(rows, s) # 0
       /\ MarkProcessingOp(PeekPending(rows, s))
       /\ worker' = [worker EXCEPT !.at = "work", !.job = PeekPending(rows, s)]
  /\ UNCHANGED liveRest

LiveMarkProcessed ==
  /\ worker.at = "work"
  /\ MarkProcessedOp(worker.job)
  /\ worker' = [worker EXCEPT !.at = "poll", !.job = 0]
  /\ UNCHANGED liveRest

LiveMarkFailedRead ==
  /\ worker.at = "work"
  /\ MarkFailedReadOp(Driver, worker.job)
  /\ worker' = [worker EXCEPT !.at = "failing"]
  /\ UNCHANGED liveRest

LiveMarkFailedWrite ==
  /\ worker.at = "failing"
  /\ MarkFailedWriteOp(Driver)
  /\ worker' = [worker EXCEPT !.at = "poll", !.job = 0]
  /\ UNCHANGED liveRest

LiveCrash ==
  /\ worker.at \in {"poll", "work", "failing"}
  /\ worker.crashes < MaxCrashes
  /\ worker' = [at |-> "down", job |-> 0, crashes |-> worker.crashes + 1]
  /\ calls' = [c \in Callers |-> NoCall]
  /\ UNCHANGED <<maxRetries, rows, nextId, now, enqueued, liveRest>>

LiveTick == TickOp /\ UNCHANGED <<worker, liveRest>>

LiveNext ==
  \/ LiveEnqueue
  \/ LiveStart
  \/ LivePoll
  \/ LiveMarkProcessed
  \/ LiveMarkFailedRead
  \/ LiveMarkFailedWrite
  \/ LiveCrash
  \/ LiveTick

\* the loop keeps running: a started process polls while a job is pending,
\* finishes every claim one way or the other, and a crashed process is
\* started again
SpecLive ==
  /\ LiveInit
  /\ [][LiveNext]_vars
  /\ WF_vars(LiveStart)
  /\ WF_vars(LivePoll)
  /\ WF_vars(LiveMarkProcessed \/ LiveMarkFailedRead)
  /\ WF_vars(LiveMarkFailedWrite)

\* C12: under the fair poll loop with resetStuckMessages(0) at every start
\* and finitely many crashes, every enqueued job eventually has status
\* processed or failed, and no enqueued job is ever lost.
C12_EveryJobIsFinished ==
  /\ \A id \in Ids :
       Exists(id) ~> (Exists(id) /\ rows[id].status \in {"processed", "failed"})
  /\ [](\A id \in Ids : enqueued[id] # NoRow => Exists(id))

(* ========================= the session store =========================== *)
\* external (claude) session ids; createSDKSession stores the same value
\* in claude_session_id and sdk_session_id
ExternalIds == {"s1", "s2"}
PromptNumbers == 1..MaxPrompts

\* SERIAL PRIMARY KEY: the id the next INSERT into a table gets
Serial(table) == Cardinality(table) + 1

\* existing.rows[0] of a SELECT without ORDER BY (rows in insertion order)
FirstRow(matching) == CHOOSE r \in matching : \A q \in matching : r.id <= q.id

\* the FOREIGN KEY of a child row: its session must exist
HasSession(d, ext) == \E r \in d.sessions : r.sdk_session_id = ext

\* text column = $n in a WHERE clause: not true when either side is NULL
SqlEquals(a, b) == a # NULL /\ b # NULL /\ a = b

\* the outcome of an import call: the tables after it and its return value
\* {imported, id}; threw = the INSERT violated a constraint and the call
\* rejected (id 0 stands for no return value)
Outcome(d, imported, id, threw) ==
  [db |-> d, imported |-> imported, id |-> id, threw |-> threw]

\* importSdkSession: SELECT id ... WHERE claude_session_id = $1, else INSERT
ImportSdkSession(d, e) ==
  LET existing == {r \in d.sessions : SqlEquals(r.claude_session_id, e.claude_session_id)}
      id == Serial(d.sessions)
  IN IF existing # {} THEN Outcome(d, FALSE, FirstRow(existing).id, FALSE)
     ELSE IF \E r \in d.sessions : r.sdk_session_id = e.sdk_session_id THEN Outcome(d, FALSE, 0, TRUE)
     ELSE Outcome([d EXCEPT !.sessions = @ \cup {[id |-> id] @@ e}], TRUE, id, FALSE)

\* importSessionSummary: SELECT id ... WHERE sdk_session_id = $1
SummaryKey(r, e) == SqlEquals(r.sdk_session_id, e.sdk_session_id)

ImportSessionSummary(d, e) ==
  LET existing == {r \in d.summaries : SummaryKey(r, e)}
      id == Serial(d.summaries)
  IN IF existing # {} THEN Outcome(d, FALSE, FirstRow(existing).id, FALSE)
     ELSE IF ~HasSession(d, e.sdk_session_id) THEN Outcome(d, FALSE, 0, TRUE)
     ELSE Outcome([d EXCEPT !.summaries = @ \cup {[id |-> id] @@ e}], TRUE, id, FALSE)

\* importObservation: SELECT id ... WHERE sdk_session_id = $1 AND title = $2
\* AND created_at_epoch = $3
ImportObservation(d, e) ==
  LET existing == {r \in d.observations :
                     /\ SqlEquals(r.sdk_session_id, e.sdk_session_id)
                     /\ SqlEquals(r.title, e.title)
                     /\ r.created_at_epoch = e.created_at_epoch}
      id == Serial(d.observations)
  IN IF existing # {} THEN Outcome(d, FALSE, FirstRow(existing).id, FALSE)
     ELSE IF ~HasSession(d, e.sdk_session_id) THEN Outcome(d, FALSE, 0, TRUE)
     ELSE Outcome([d EXCEPT !.observations = @ \cup {[id |-> id] @@ e}], TRUE, id, FALSE)

\* importUserPrompt: SELECT id ... WHERE claude_session_id = $1 AND
\* prompt_number = $2
ImportUserPrompt(d, e) ==
  LET existing == {r \in d.prompts :
                     /\ SqlEquals(r.claude_session_id, e.claude_session_id)
                     /\ r.prompt_number = e.prompt_number}
      id == Serial(d.prompts)
  IN IF existing # {} THEN Outcome(d, FALSE, FirstRow(existing).id, FALSE)
     ELSE IF ~\E r \in d.sessions : r.claude_session_id = e.claude_session_id
          THEN Outcome(d, FALSE, 0, TRUE)
     ELSE Outcome([d EXCEPT !.prompts = @ \cup {[id |-> id] @@ e}], TRUE, id, FALSE)

(* --------------------- scenario: a data import -------------------------- *)
\* The entities an export file can hold, fed to the four import methods in
\* any order and any number of times (each table capped at MaxRows rows).
ImportedSessions ==
  { [claude_session_id |-> x, sdk_session_id |-> x, project |-> "p",
     user_prompt |-> "u1", status |-> "completed"] : x \in ExternalIds }
ImportedSummaries ==
  { [sdk_session_id |-> x, project |-> "p", prompt_number |-> n,
     created_at_epoch |-> 10 * n] : x \in ExternalIds, n \in PromptNumbers }
ImportedObservations ==
  { [sdk_session_id |-> x, project |-> "p", title |-> t, created_at_epoch |-> 10 * k] :
      x \in ExternalIds, t \in {"t", NULL}, k \in 1..MaxImportEpochs }
ImportedPrompts ==
  { [claude_session_id |-> x, prompt_number |-> n, created_at_epoch |-> 10 * n] :
      x \in ExternalIds, n \in PromptNumbers }

importRest == <<maxRetries, rows, nextId, now, calls, enqueued, scenarioVars, worker, storing, timeline,
               repl, serviceVars>>

ImportInit ==
  /\ maxRetries = DefaultMaxRetries
  /\ QueueInit
  /\ ScenarioIdle
  /\ worker = NoWorker
  /\ db = EmptyDb
  /\ storing = [c \in Storers |-> NotStoring]
  /\ timeline = NoTimeline
  /\ repl = NoReplication(<<DefaultPrimaryPort>>)
  /\ ServiceIdle

ImportSession ==
  /\ \E e \in ImportedSessions : db' = ImportSdkSession(db, e).db
  /\ UNCHANGED importRest

ImportSummary ==
  /\ Cardinality(db.summaries) < MaxRows
  /\ \E e \in ImportedSummaries : db' = ImportSessionSummary(db, e).db
  /\ UNCHANGED importRest

ImportObs ==
  /\ Cardinality(db.observations) < MaxRows
  /\ \E e \in ImportedObservations : db' = ImportObservation(db, e).db
  /\ UNCHANGED importRest

ImportPrompt ==
  /\ Cardinality(db.prompts) < MaxRows
  /\ \E e \in ImportedPrompts : db' = ImportUserPrompt(db, e).db
  /\ UNCHANGED importRest

ImportNext ==
  \/ ImportSession
  \/ ImportSummary
  \/ ImportObs
  \/ ImportPrompt

SpecImport == ImportInit /\ [][ImportNext]_vars

\* a call that imported, repeated with the same entity: the repeat skips,
\* returns the id of the first call and leaves the tables as they were
RepeatSkips(first, second) ==
  first.imported =>
    /\ ~second.imported /\ ~second.threw
    /\ second.id = first.id
    /\ second.db = first.db

\* C13: each import method called twice in sequence with the same entity
\* (an observation with a null title included) returns {imported: true, id}
\* and then {imported: false, id} with the same id, the second call adding
\* no row.
C13_ImportTwiceAddsOneRow ==
  /\ \A e \in ImportedSessions :
       RepeatSkips(ImportSdkSession(db, e), ImportSdkSession(ImportSdkSession(db, e).db, e))
  /\ \A e \in ImportedSummaries :
       RepeatSkips(ImportSessionSummary(db, e),
                   ImportSessionSummary(ImportSessionSummary(db, e).db, e))
  /\ \A e \in ImportedPrompts :
       RepeatSkips(ImportUserPrompt(db, e), ImportUserPrompt(ImportUserPrompt(db, e).db, e))
  /\ \A e \in ImportedObservations :
       RepeatSkips(ImportObservation(db, e), ImportObservation(ImportObservation(db, e).db, e))

\* C14: importSessionSummary skips exactly when a summary with the same
\* session id and the same prompt number is stored; summaries of one
\* session with different prompt numbers are all imported.
C14_SummaryKeyIsSessionAndPromptNumber ==
  \A e \in ImportedSummaries :
    HasSession(db, e.sdk_session_id) =>
      (ImportSessionSummary(db, e).imported <=>
         ~\E r \in db.summaries :
            r.sdk_session_id = e.sdk_session_id /\ r.prompt_number = e.prompt_number)

(* ------------- scenario: sessions created and ensured ------------------- *)
\* createSDKSession called at any time with any arguments, and NumStorers
\* callers that each run one storeObservation or storeSummary, whose two
\* awaited statements (ensureSessionExists, then the child INSERT)
\* interleave with everything else.
Projects == {"", "p", "q"}
UserPrompts == {"u1", "u2"}

\* the session rows with a given external id
SessionsOf(d, ext) == {r \in d.sessions : r.claude_session_id = ext}

\* mutant: the upsert taking the new project always
UpsertProjectAlways(stored, excluded) == excluded

\* CASE WHEN sdk_sessions.project = '' THEN EXCLUDED.project
\*      ELSE sdk_sessions.project END
UpsertProject(stored, excluded) == IF stored = "" THEN excluded ELSE stored

\* createSDKSession: INSERT ... ON CONFLICT (claude_session_id) DO UPDATE
\* SET project = ..., user_prompt = EXCLUDED.user_prompt RETURNING id
\* (every row here has sdk_session_id = claude_session_id, as this method
\* and ensureSessionExists write them, so the two UNIQUE columns conflict
\* together)
CreateSDKSession(d, ext, project, userPrompt) ==
  LET old == SessionsOf(d, ext) IN
  IF old # {}
  THEN LET r == FirstRow(old)
           new == [r EXCEPT !.project = UpsertProject(r.project, project),
                            !.user_prompt = userPrompt]
       IN [db |-> [d EXCEPT !.sessions = (@ \ {r}) \cup {new}], id |-> r.id]
  ELSE [db |-> [d EXCEPT !.sessions = @ \cup
                  {[id |-> Serial(d.sessions), claude_session_id |-> ext,
                    sdk_session_id |-> ext, project |-> project,
                    user_prompt |-> userPrompt, status |-> "active"]}],
        id |-> Serial(d.sessions)]

\* mutant: the ensure step written as an upsert of the project
EnsureSessionExistsOverwriting(d, ext, project) ==
  IF SessionsOf(d, ext) # {}
  THEN [d EXCEPT !.sessions =
          {IF r.claude_session_id = ext THEN [r EXCEPT !.project = project] ELSE r :
             r \in d.sessions}]
  ELSE [d EXCEPT !.sessions = @ \cup
          {[id |-> Serial(d.sessions), claude_session_id |-> ext,
            sdk_session_id |-> ext, project |-> project,
            user_prompt |-> NULL, status |-> "active"]}]

\* ensureSessionExists: INSERT ... ON CONFLICT (claude_session_id) DO NOTHING
\* (user_prompt is not in the column list and stays NULL)
EnsureSessionExists(d, ext, project) ==
  IF SessionsOf(d, ext) # {} THEN d
  ELSE [d EXCEPT !.sessions = @ \cup
          {[id |-> Serial(d.sessions), claude_session_id |-> ext,
            sdk_session_id |-> ext, project |-> project,
            user_prompt |-> NULL, status |-> "active"]}]

\* the INSERT INTO observations / session_summaries of storeObservation /
\* storeSummary (title and promptNumber omitted by the caller); it rejects
\* when the session row is missing (FOREIGN KEY)
InsertChild(d, call) ==
  LET row(table) == [id |-> Serial(table), sdk_session_id |-> call.ext,
                     project |-> call.project, created_at_epoch |-> call.nowEpoch]
  IN IF ~HasSession(d, call.ext) THEN d
     ELSE IF call.kind = "observation"
          THEN [d EXCEPT !.observations = @ \cup {row(d.observations) @@ [title |-> NULL]}]
          ELSE [d EXCEPT !.summaries = @ \cup {row(d.summaries) @@ [prompt_number |-> NULL]}]

sessionRest == <<maxRetries, rows, nextId, now, calls, enqueued, scenarioVars, worker,
                timeline, repl, serviceVars>>

SessionInit ==
  /\ maxRetries = DefaultMaxRetries
  /\ QueueInit
  /\ ScenarioIdle
  /\ SideIdle

CreateSession ==
  /\ \E ext \in ExternalIds, project \in Projects, userPrompt \in UserPrompts :
       db' = CreateSDKSession(db, ext, project, userPrompt).db
  /\ UNCHANGED <<storing, sessionRest>>

\* storeObservation / storeSummary up to its first await: the arguments
\* and the clock value are fixed
StoreBegin(c) ==
  /\ storing[c].pc = "idle"
  /\ \E kind \in {"observation", "summary"}, ext \in ExternalIds,
        project \in Projects \ {""} :
       storing' = [storing EXCEPT ![c] =
                     [pc |-> "ensure", kind |-> kind, ext |-> ext,
                      project |-> project, nowEpoch |-> now]]
  /\ UNCHANGED <<db, sessionRest>>

StoreEnsure(c) ==
  /\ storing[c].pc = "ensure"
  /\ db' = EnsureSessionExists(db, storing[c].ext, storing[c].project)
  /\ storing' = [storing EXCEPT ![c].pc = "insert"]
  /\ UNCHANGED sessionRest

StoreInsert(c) ==
  /\ storing[c].pc = "insert"
  /\ db' = InsertChild(db, storing[c])
  /\ storing' = [storing EXCEPT ![c].pc = "done"]
  /\ UNCHANGED sessionRest

SessionNext ==
  \/ CreateSession
  \/ \E c \in Storers : StoreBegin(c)
  \/ \E c \in Storers : StoreEnsure(c)
  \/ \E c \in Storers : StoreInsert(c)

SpecSession == SessionInit /\ [][SessionNext]_vars

\* C15: createSDKSession with an external id leaves exactly one row for it
\* and returns that row's id, the id of the row that was already there if
\* any; the row's prompt is the call's prompt; its project is the call's
\* only if the row is new or its project was the empty string; no other
\* session changes.  ensureSessionExists leaves an existing row as it is
\* and otherwise inserts one row.
C15_CreateSessionIsAnUpsert ==
  /\ \A ext \in ExternalIds : Cardinality(SessionsOf(db, ext)) <= 1
  /\ \A ext \in ExternalIds, project \in Projects, userPrompt \in UserPrompts :
       LET call == CreateSDKSession(db, ext, project, userPrompt)
           old == SessionsOf(db, ext)
           new == SessionsOf(call.db, ext)
       IN /\ Cardinality(new) = 1
          /\ call.db.sessions \ new = db.sessions \ old
          /\ \A r \in new :
               /\ call.id = r.id
               /\ r.user_prompt = userPrompt
               /\ \A o \in old :
                    /\ r.id = o.id
                    /\ r.project = (IF o.project = "" THEN project ELSE o.project)
               /\ old = {} => r.project = project /\ r.status = "active"
  /\ \A ext \in ExternalIds, project \in Projects :
       LET after == EnsureSessionExists(db, ext, project)
       IN /\ Cardinality(SessionsOf(after, ext)) = 1
          /\ SessionsOf(db, ext) # {} => after = db
          /\ after.sessions \ SessionsOf(after, ext) = db.sessions \ SessionsOf(db, ext)

\* a session whose project was set by an ensure step or an earlier call
\* and whose prompt a later createSDKSession replaced; a further call with
\* another project keeps "p"
C15_Witness ==
  \E r \in db.sessions :
    /\ r.project = "p" /\ r.user_prompt = "u2" /\ r.id = 2
    /\ \E o \in db.sessions : o.project = ""
    /\ CreateSDKSession(db, r.claude_session_id, "q", "u1").id = 2
    /\ \A n \in SessionsOf(CreateSDKSession(db, r.claude_session_id, "q", "u1").db,
                            r.claude_session_id) :
         n.project = "p" /\ n.user_prompt = "u1"

\* C16: with storeObservation / storeSummary calls in flight, there is at
\* most one session row per external id; an ensure step inserts that row
\* when there is none and otherwise changes nothing; a call that is past
\* its ensure step has a session row, and so has every child row.
C16_OneEnsureInserts ==
  /\ [](/\ \A ext \in ExternalIds : Cardinality(SessionsOf(db, ext)) <= 1
        /\ \A c \in Storers :
             storing[c].pc \in {"insert", "done"} => SessionsOf(db, storing[c].ext) # {}
        /\ \A r \in db.observations \cup db.summaries : HasSession(db, r.sdk_session_id))
  /\ [][\A c \in Storers :
          (storing[c].pc = "ensure" /\ storing'[c].pc = "insert") =>
            IF SessionsOf(db, storing[c].ext) # {}
            THEN db' = db
            ELSE /\ Cardinality(db'.sessions) = Cardinality(db.sessions) + 1
                 /\ Cardinality(SessionsOf(db', storing[c].ext)) = 1
                 /\ db.sessions \subseteq db'.sessions]_vars
  /\ [][\A c \in Storers :
          (storing[c].pc = "insert" /\ storing'[c].pc = "done") =>
            /\ db'.sessions = db.sessions
            /\ Cardinality(db'.observations) + Cardinality(db'.summaries)
                 = Cardinality(db.observations) + Cardinality(db.summaries) + 1]_vars

\* both callers stored a child for the same session with different
\* projects; the one row of the session was inserted by an ensure step
C16_Witness ==
  /\ \A c \in Storers : storing[c].pc = "done" /\ storing[c].ext = "s1"
  /\ \E c1 \in Storers, c2 \in Storers : storing[c1].project # storing[c2].project
  /\ \A r \in db.sessions : r.user_prompt = NULL
  /\ Cardinality(db.sessions) = 1
  /\ Cardinality(db.observations) + Cardinality(db.summaries) = NumStorers


(* ============================ the timeline ============================= *)
\* created_at_epoch values of the stored observations, and the anchors of
\* the queries (on and between those)
Epochs == {10 * k : k \in 1..MaxEpochs}
Anchors == {5 * k : k \in 1..(2 * MaxEpochs + 1)}
Depths == 0..MaxDepth

EpochsOf(table) == {r.created_at_epoch : r \in table}
Oldest(epochs) == CHOOSE e \in epochs : \A f \in epochs : e <= f
Newest(epochs) == CHOOSE e \in epochs : \A f \in epochs : e >= f

\* `project ? 'AND project = $2' : ''` in the two boundary queries
InProject(r, project) == project \in {NULL, ""} \/ r.project = project

\* ORDER BY created_at_epoch DESC LIMIT n (rows of equal epoch by id)
NewestRows(table, n) ==
  {r \in table :
     Cardinality({q \in table : \/ q.created_at_epoch > r.created_at_epoch
                                \/ /\ q.created_at_epoch = r.created_at_epoch
                                   /\ q.id < r.id}) < n}

\* ORDER BY created_at_epoch ASC LIMIT n
OldestRows(table, n) ==
  {r \in table :
     Cardinality({q \in table : \/ q.created_at_epoch < r.created_at_epoch
                                \/ /\ q.created_at_epoch = r.created_at_epoch
                                   /\ q.id < r.id}) < n}

\* the rows of a table with startEpoch <= created_at_epoch <= endEpoch
Between(table, startEpoch, endEpoch) ==
  {r \in table : r.created_at_epoch >= startEpoch /\ r.created_at_epoch <= endEpoch}

\* getTimelineAroundObservation.  anchorObservationId is not read.  With a
\* project the window queries reuse 'AND project = $2' although $2 is then
\* endEpoch, which PostgreSQL rejects (text = bigint): the call throws.
GetTimelineAroundObservation(d, anchorObservationId, anchorEpoch, depthBefore, depthAfter, project) ==
  LET beforeResult ==
        NewestRows({r \in d.observations :
                      r.created_at_epoch <= anchorEpoch /\ InProject(r, project)},
                   depthBefore)
      afterResult ==
        OldestRows({r \in d.observations :
                      r.created_at_epoch >= anchorEpoch /\ InProject(r, project)},
                   depthAfter + 1)
      startEpoch == IF beforeResult # {} THEN Oldest(EpochsOf(beforeResult))
                    ELSE anchorEpoch
      endEpoch == IF afterResult # {} THEN Newest(EpochsOf(afterResult))
                  ELSE anchorEpoch
  IN IF beforeResult = {} /\ afterResult = {}
     THEN [observations |-> {}, sessions |-> {}, prompts |-> {}, threw |-> FALSE]
     ELSE IF project \notin {NULL, ""}
     THEN [observations |-> {}, sessions |-> {}, prompts |-> {}, threw |-> TRUE]
     ELSE [observations |-> Between(d.observations, startEpoch, endEpoch),
           sessions |-> Between(d.summaries, startEpoch, endEpoch),
           prompts |-> Between({up \in d.prompts :
                                  \E x \in d.sessions :
                                    x.claude_session_id = up.claude_session_id},
                               startEpoch, endEpoch),
           threw |-> FALSE]

\* getTimelineAroundTimestamp
GetTimelineAroundTimestamp(d, anchorEpoch, depthBefore, depthAfter, project) ==
  GetTimelineAroundObservation(d, NULL, anchorEpoch, depthBefore, depthAfter, project)

(* -------------------- scenario: timeline queries ------------------------ *)
\* A store holding one session with observations at distinct epochs,
\* summaries and prompts, queried with any anchor and depths.  A query
\* changes no table, so each behaviour runs one query.
timelineRest == <<maxRetries, rows, nextId, now, calls, enqueued, scenarioVars, worker,
                  storing, db, repl, serviceVars>>

TimelineInit ==
  /\ maxRetries = DefaultMaxRetries
  /\ QueueInit
  /\ ScenarioIdle
  /\ worker = NoWorker
  /\ storing = [c \in Storers |-> NotStoring]
  /\ timeline = NoTimeline
  /\ repl = NoReplication(<<DefaultPrimaryPort>>)
  /\ ServiceIdle
  /\ \E obs \in SUBSET Epochs, sums \in SUBSET {5, 35}, ups \in SUBSET {25, 55} :
       db = [sessions |-> {[id |-> 1, claude_session_id |-> "s1", sdk_session_id |-> "s1",
                            project |-> "p", user_prompt |-> "u1", status |-> "active"]},
             observations |-> {[id |-> e \div 10, sdk_session_id |-> "s1", project |-> "p",
                                title |-> NULL, created_at_epoch |-> e] : e \in obs},
             summaries |-> {[id |-> e, sdk_session_id |-> "s1", project |-> "p",
                             prompt_number |-> NULL, created_at_epoch |-> e] : e \in sums},
             prompts |-> {[id |-> e, claude_session_id |-> "s1", prompt_number |-> 1,
                           created_at_epoch |-> e] : e \in ups}]

TimelineAroundObservation ==
  /\ ~timeline.called
  /\ \E o \in db.observations, b \in Depths, c \in Depths, project \in {NULL, "p"} :
       timeline' = [called |-> TRUE, method |-> "getTimelineAroundObservation",
                    anchorEpoch |-> o.created_at_epoch, depthBefore |-> b,
                    depthAfter |-> c, project |-> project,
                    result |-> GetTimelineAroundObservation(db, o.id, o.created_at_epoch,
                                                            b, c, project)]
  /\ UNCHANGED timelineRest

TimelineAroundTimestamp ==
  /\ ~timeline.called
  /\ \E a \in Anchors, b \in Depths, c \in Depths, project \in {NULL, "p"} :
       timeline' = [called |-> TRUE, method |-> "getTimelineAroundTimestamp",
                    anchorEpoch |-> a, depthBefore |-> b, depthAfter |-> c,
                    project |-> project,
                    result |-> GetTimelineAroundTimestamp(db, a, b, c, project)]
  /\ UNCHANGED timelineRest

TimelineNext ==
  \/ TimelineAroundObservation
  \/ TimelineAroundTimestamp

SpecTimeline == TimelineInit /\ [][TimelineNext]_vars

\* the n epochs of a set nearest to the anchor on one side
NearestOlder(epochs, a, n) ==
  {e \in epochs : e < a /\ Cardinality({f \in epochs : f < a /\ f > e}) < n}
NearestNewer(epochs, a, n) ==
  {e \in epochs : e > a /\ Cardinality({f \in epochs : f > a /\ f < e}) < n}

\* C17: getTimelineAroundObservation around an observation at epoch a
\* returns that observation, the depthBefore nearest older and the
\* depthAfter nearest newer observations (all of a side that has fewer).
C17_WindowAroundObservation ==
  (/\ timeline.called
   /\ timeline.method = "getTimelineAroundObservation"
   /\ timeline.project = NULL) =>
    LET a == timeline.anchorEpoch
        all == EpochsOf(db.observations)
    IN /\ ~timeline.result.threw
       /\ EpochsOf(timeline.result.observations)
            = {a} \cup NearestOlder(all, a, timeline.depthBefore)
                  \cup NearestNewer(all, a, timeline.depthAfter)

\* C18: getTimelineAroundTimestamp with no observation at the anchor
\* returns at most depthBefore observations older and at most depthAfter
\* newer than the anchor, and every returned observation, summary and
\* prompt lies between the oldest and the newest returned observation.
C18_WindowAroundTimestamp ==
  (/\ timeline.called
   /\ timeline.method = "getTimelineAroundTimestamp"
   /\ timeline.project = NULL
   /\ timeline.anchorEpoch \notin EpochsOf(db.observations)) =>
    LET r == timeline.result
        got == EpochsOf(r.observations)
    IN /\ Cardinality({e \in got : e < timeline.anchorEpoch}) <= timeline.depthBefore
       /\ Cardinality({e \in got : e > timeline.anchorEpoch}) <= timeline.depthAfter
       /\ \A e \in got \cup EpochsOf(r.sessions) \cup EpochsOf(r.prompts) :
            e >= Oldest(got) /\ e <= Newest(got)


\* every list getWorkerPorts can return
WorkerPortLists == {GetWorkerPorts(c[1], Tail(c)) : c \in PortConfigurations}

\* mutant: the port list returned unfiltered
GetSecondaryPortsUnfiltered(allPorts) == allPorts
\* getSecondaryPorts: allPorts.filter(p => p !== primaryPort), where
\* primaryPort is getWorkerPort(), the cached head of the list
GetSecondaryPorts(allPorts) ==
  SelectSeq(allPorts, LAMBDA port : port # allPorts[1])

\* the data of the four replicate* functions (the fields that identify the
\* entity; the primary's id and creation epoch among them)
ReplicatedData ==
  { [kind |-> "observation",
     data |-> [claudeSessionId |-> "s1", obsId |-> i, createdAtEpoch |-> 10 * i]] :
       i \in 1..MaxEntityId } \cup
  { [kind |-> "summary",
     data |-> [claudeSessionId |-> "s1", summaryId |-> i, createdAtEpoch |-> 10 * i]] :
       i \in 1..MaxEntityId } \cup
  { [kind |-> "session",
     data |-> [claudeSessionId |-> "s1", sessionDbId |-> i, promptNumber |-> 1]] :
       i \in 1..MaxEntityId } \cup
  { [kind |-> "prompt",
     data |-> [claudeSessionId |-> "s1", promptNumber |-> i, promptText |-> "text"]] :
       i \in 1..MaxEntityId }

\* the request of one loop iteration: POST /api/replicate/<kind> with
\* body JSON.stringify(data)
ReplicationRequest(port, kind, data) ==
  [port |-> port, path |-> "/api/replicate/" \o kind, body |-> <<"json", data>>]

\* the id each function puts into its log records
LoggedId(kind, data) ==
  CASE kind = "observation" -> [obsId |-> data.obsId]
    [] kind = "summary" -> [summaryId |-> data.summaryId]
    [] kind = "session" -> [sessionDbId |-> data.sessionDbId]
    [] kind = "prompt" -> [promptNumber |-> data.promptNumber]

\* how a fetch can end: 2xx response, other response, rejection (host
\* unreachable, connection refused), AbortSignal.timeout(5000) firing
FetchOutcomes == {"ok", "notOk", "rejected", "timeout"}

\* mutant: the loop body without try / catch
AfterFetchUncaught(r, outcome) ==
  IF outcome \in {"rejected", "timeout"}
  THEN [r EXCEPT !.at = "threw", !.answers = Append(@, outcome)]
  ELSE [r EXCEPT !.answers = Append(@, outcome),
                 !.warnings = IF outcome = "ok" THEN @
                              ELSE Append(@, [port |-> Head(r.todo),
                                              message |-> "Failed to replicate",
                                              id |-> LoggedId(r.kind, r.data)]),
                 !.todo = Tail(@),
                 !.at = IF Tail(r.todo) = <<>> THEN "returned" ELSE "loop"]

\* mutant: the loop left at the first secondary that fails
AfterFetchStopping(r, outcome) ==
  [r EXCEPT !.answers = Append(@, outcome),
            !.warnings = IF outcome = "ok" THEN @
                         ELSE Append(@, [port |-> Head(r.todo),
                                         message |-> "Error replicating",
                                         id |-> LoggedId(r.kind, r.data)]),
            !.todo = IF outcome = "ok" THEN Tail(@) ELSE <<>>,
            !.at = IF outcome # "ok" \/ Tail(r.todo) = <<>> THEN "returned" ELSE "loop"]

\* the rest of a loop iteration once its fetch has ended: logger.warn for
\* a non-OK response (if branch) and for a rejection or timeout (catch
\* branch), logger.debug otherwise; then the next port, or return
AfterFetch(r, outcome) ==
  [r EXCEPT !.answers = Append(@, outcome),
            !.warnings = IF outcome = "ok" THEN @
                         ELSE Append(@, [port |-> Head(r.todo),
                                         message |-> IF outcome = "notOk"
                                                     THEN "Failed to replicate"
                                                     ELSE "Error replicating",
                                         id |-> LoggedId(r.kind, r.data)]),
            !.todo = Tail(@),
            !.at = IF Tail(r.todo) = <<>> THEN "returned" ELSE "loop"]

(* ------------------ scenario: replicate* calls ------------------------- *)
\* An instance with any configured port list on which replicate* is
\* called, one call at a time; every secondary answers each request in
\* any of the four ways.
replRest == <<maxRetries, rows, nextId, now, calls, enqueued, scenarioVars, worker,
              storing, db, timeline, serviceVars>>

ReplicateInit ==
  /\ maxRetries = DefaultMaxRetries
  /\ QueueInit
  /\ ScenarioIdle
  /\ worker = NoWorker
  /\ db = EmptyDb
  /\ storing = [c \in Storers |-> NotStoring]
  /\ timeline = NoTimeline
  /\ \E configured \in PortConfigurations : repl = NoReplication(configured)
  /\ ServiceIdle

\* replicate*(data) up to its first await, or to its return when there is
\* no secondary port
ReplicateCall ==
  /\ repl.at \in {"idle", "returned"}
  /\ \E call \in ReplicatedData :
       repl' = [NoReplication(repl.configured) EXCEPT
                  !.kind = call.kind, !.data = call.data,
                  !.todo = GetSecondaryPorts(repl.ports),
                  !.at = IF GetSecondaryPorts(repl.ports) = <<>>
                         THEN "returned" ELSE "loop"]
  /\ UNCHANGED replRest

\* the fetch of the loop iteration for the next port
ReplicateFetch ==
  /\ repl.at = "loop"
  /\ repl' = [repl EXCEPT
                !.sent = Append(@, ReplicationRequest(Head(repl.todo), repl.kind, repl.data)),
                !.at = "fetching"]
  /\ UNCHANGED replRest

\* the secondary answers, or the 5 s deadline passes
ReplicateSettle ==
  /\ repl.at = "fetching"
  /\ \E outcome \in FetchOutcomes : repl' = AfterFetch(repl, outcome)
  /\ UNCHANGED replRest

ReplicateNext ==
  \/ ReplicateCall
  \/ ReplicateFetch
  \/ ReplicateSettle

SpecReplicate == ReplicateInit /\ [][ReplicateNext]_vars

\* the event loop runs the continuation of every await, and every fetch
\* ends, by an answer or by its 5 s deadline
SpecReplicateLive ==
  /\ SpecReplicate
  /\ WF_vars(ReplicateFetch)
  /\ WF_vars(ReplicateSettle)

\* C19: a replicate* call never throws to its caller, whatever the
\* secondaries do, and for every secondary whose request failed (non-OK
\* status, unreachable, timeout) a warning was logged that names that port
\* and the id of the entity.
C19_ReplicationFailuresAreWarnings ==
  /\ repl.at # "threw"
  /\ Len(repl.answers) <= Len(repl.sent)
  /\ \A i \in 1..Len(repl.answers) :
       repl.answers[i] # "ok" =>
         \E w \in 1..Len(repl.warnings) :
           /\ repl.warnings[w].port = repl.sent[i].port
           /\ repl.warnings[w].id = LoggedId(repl.kind, repl.data)
  /\ Len(repl.warnings) = Cardinality({i \in 1..Len(repl.answers) : repl.answers[i] # "ok"})

\* primary 37777 and secondary 38888 unreachable: replicateObservation has
\* returned and logged one warning with port 38888 and the observation id
C19_Witness ==
  /\ repl.ports = <<DefaultPrimaryPort, 38888>>
  /\ repl.kind = "observation"
  /\ repl.at = "returned"
  /\ repl.answers = <<"rejected">>
  /\ repl.warnings = <<[port |-> 38888, message |-> "Error replicating",
                        id |-> [obsId |-> repl.data.obsId]]>>

\* C20: a replicate* call sends one request to each secondary port, in
\* order, each with the call's data unmodified, whatever the earlier
\* secondaries answered; it sends nothing else; and once called it returns.
C20_OneRequestPerSecondary ==
  /\ [](repl.at = "returned" =>
          /\ Len(repl.sent) = Len(GetSecondaryPorts(repl.ports))
          /\ Len(repl.answers) = Len(repl.sent)
          /\ \A i \in 1..Len(repl.sent) :
               repl.sent[i] = ReplicationRequest(GetSecondaryPorts(repl.ports)[i],
                                                 repl.kind, repl.data))
  /\ [](\A i \in 1..Len(repl.sent), j \in 1..Len(repl.sent) :
          repl.sent[i].port = repl.sent[j].port => i = j)
  /\ [](repl.ports[1] \notin {repl.sent[i].port : i \in 1..Len(repl.sent)})
  /\ (repl.at \in {"loop", "fetching"}) ~> (repl.at = "returned")

\* two secondaries: the first timed out, the second was still asked and
\* answered, and the call returned
C20_Witness ==
  /\ repl.at = "returned"
  /\ Len(repl.sent) = 2
  /\ repl.answers = <<"timeout", "ok">>
  /\ repl.sent[1].port # repl.sent[2].port

\* C21: the secondary ports a replicate* call uses are the configured
\* ports (the primary and the entries of CLAUDE_MEM_WORKER_PORTS within
\* 1024..65535) without the primary: the primary is never among them,
\* every other configured port is among them exactly once, and a call with
\* no secondary port returns without sending a request.
ConfiguredPorts ==
  {repl.configured[i] : i \in 1..Len(repl.configured)} \cap
    ({repl.configured[1]} \cup 1024..65535)
SecondaryPortsUsed ==
  [i \in 1..Len(repl.sent) |-> repl.sent[i].port] \o
    (IF repl.at = "fetching" THEN Tail(repl.todo) ELSE repl.todo)
ResponseOf(port) == [port |-> port, ok |-> TRUE]

\* mutant: a failing secondary treated like a failing primary
AfterFanOutFetchAllCritical(f, index, outcome) ==
  [f EXCEPT !.results = [@ EXCEPT ![index] = outcome],
            !.pending = @ \ {index},
            !.at = IF f.at # "waiting" THEN @
                   ELSE IF outcome # "ok" THEN "threw"
                   ELSE IF f.pending \ {index} = {} THEN "returned" ELSE "waiting",
            !.response = IF f.at = "waiting" /\ outcome = "ok" /\ f.pending \ {index} = {}
                         THEN ResponseOf(f.ports[1]) ELSE @]
\* the rest of one request of ports.map(async (port, index) => ...) once
\* its fetch has ended, and what Promise.all and the code after it make of
\* it: the primary's request (index 0 in the code, 1 here) throws on a
\* non-OK response and rethrows a rejection, which rejects Promise.all and
\* so the call; a secondary's request logs a warning and resolves; when all
\* requests have resolved, the call returns the primary's response (or
\* throws if there is none)
AfterFanOutFetch(f, index, outcome) ==
  LET isPrimary == index = 1
      results == [f.results EXCEPT ![index] = outcome]
      pending == f.pending \ {index}
      primaryResponse == IF results[1] = "ok" THEN ResponseOf(f.ports[1]) ELSE NoResponse
  IN [f EXCEPT !.results = results,
               !.pending = pending,
               !.warnings = IF ~isPrimary /\ outcome # "ok" THEN @ \cup {f.ports[index]} ELSE @,
               !.at = IF f.at # "waiting" THEN @
                      ELSE IF isPrimary /\ outcome # "ok" THEN "threw"
                      ELSE IF pending # {} THEN "waiting"
                      ELSE IF primaryResponse = NoResponse THEN "threw" ELSE "returned",
               !.response = IF f.at = "waiting" /\ ~(isPrimary /\ outcome # "ok") /\ pending = {}
                            THEN primaryResponse ELSE @]

(* ------------------ scenario: fanOutRequest calls ---------------------- *)
\* An instance with any configured port list on which fanOutRequest is
\* called, one call at a time; every port answers its request in any of
\* the four ways, in any order.
fanOutRest == <<maxRetries, rows, nextId, now, calls, enqueued, scenarioVars, worker,
                storing, db, timeline, repl, manager, importing>>

FanOutInit ==
  /\ maxRetries = DefaultMaxRetries
  /\ QueueInit
  /\ ScenarioIdle
  /\ worker = NoWorker
  /\ db = EmptyDb
  /\ storing = [c \in Storers |-> NotStoring]
  /\ timeline = NoTimeline
  /\ repl = NoReplication(<<DefaultPrimaryPort>>)
  /\ manager = NewManager([CLAUDE_MEM_DATABASE |-> "sqlite", CLAUDE_MEM_DATABASE_URL |-> FALSE])
  /\ importing = NoImport
  /\ \E configured \in PortConfigurations :
       fanOut = [NoFanOut EXCEPT !.ports = GetWorkerPorts(configured[1], Tail(configured))]

\* fanOutRequest(path, options) up to await Promise.all(requests): every
\* request has run to its await fetch
FanOutCall ==
  /\ fanOut.at \in {"idle", "returned", "threw"}
  /\ fanOut.pending = {}
  /\ fanOut' = [NoFanOut EXCEPT !.ports = fanOut.ports,
                                !.at = "waiting",
                                !.pending = 1..Len(fanOut.ports),
                                !.results = [i \in 1..Len(fanOut.ports) |-> "none"]]
  /\ UNCHANGED fanOutRest

\* one of the fetches ends
FanOutSettle ==
  /\ \E index \in fanOut.pending, outcome \in FetchOutcomes :
       fanOut' = AfterFanOutFetch(fanOut, index, outcome)
  /\ UNCHANGED fanOutRest

FanOutNext ==
  \/ FanOutCall
  \/ FanOutSettle

SpecFanOut == FanOutInit /\ [][FanOutNext]_vars

\* C22: fanOutRequest returns the primary port's response when the primary
\* answered OK and every secondary's request has ended, however it ended;
\* it throws when the primary's request was rejected, timed out or was
\* answered with a non-OK status, whatever the secondaries answered; and it
\* does nothing else.
C22_PrimaryDecidesFanOut ==
  fanOut.at # "idle" =>
    /\ fanOut.at = "returned" =>
         fanOut.results[1] = "ok" /\ fanOut.response = ResponseOf(fanOut.ports[1])
    /\ fanOut.results[1] = "ok" /\ fanOut.pending = {} => fanOut.at = "returned"
    /\ fanOut.results[1] \in {"notOk", "rejected", "timeout"} =>
         fanOut.at = "threw" /\ fanOut.response = NoResponse
    /\ fanOut.at = "threw" => fanOut.results[1] \in {"notOk", "rejected", "timeout"}

\* three ports: the primary answered OK, one secondary was unreachable and
\* the other timed out; the call returned the primary's response
C22_Witness ==
  /\ Len(fanOut.ports) = 3
  /\ fanOut.results = <<"ok", "rejected", "timeout">>
  /\ fanOut.at = "returned"
  /\ fanOut.response = ResponseOf(fanOut.ports[1])
  /\ fanOut.warnings = {fanOut.ports[2], fanOut.ports[3]}

(* ========================= DatabaseManager ============================= *)
\* getBackendType
GetBackendType(env) ==
  IF env.CLAUDE_MEM_DATABASE = "postgres" THEN "postgres" ELSE "sqlite"

\* how the awaited steps of initialize can end: all succeed, or
\* pgStore.initialize() (runMigrations) rejects
InitializeOutcomes == {"ok", "migrations failed"}

\* mutant: the store assigned before it is initialized
InitializeAssigningEarly(m, outcome) ==
  LET backend == GetBackendType(m.env)
  IN IF backend = "postgres" /\ ~m.env.CLAUDE_MEM_DATABASE_URL
     THEN [m EXCEPT !.backend = backend, !.initialize = "threw"]
     ELSE IF backend = "postgres" /\ outcome = "migrations failed"
     THEN [m EXCEPT !.backend = backend, !.initialize = "threw",
                    !.sessionStore = "PostgresSessionStore"]
     ELSE [m EXCEPT !.backend = backend, !.initialize = "returned",
                    !.sessionStore = IF backend = "postgres" THEN "PostgresSessionStore"
                                     ELSE "SessionStore",
                    !.pendingStore = IF backend = "postgres" THEN "PostgresPendingMessageStore"
                                     ELSE "PendingMessageStore",
                    !.sessionSearch = IF backend = "postgres" THEN NULL ELSE "SessionSearch",
                    !.chromaSync = "ChromaSync"]
\* mutant: the embedded backend used when the connection string is missing
InitializeFallingBack(m, outcome) ==
  LET backend == IF m.env.CLAUDE_MEM_DATABASE_URL THEN GetBackendType(m.env) ELSE "sqlite"
  IN IF backend = "postgres" /\ outcome = "migrations failed"
     THEN [m EXCEPT !.backend = backend, !.initialize = "threw"]
     ELSE [m EXCEPT !.backend = backend, !.initialize = "returned",
                    !.sessionStore = IF backend = "postgres" THEN "PostgresSessionStore"
                                     ELSE "SessionStore",
                    !.pendingStore = IF backend = "postgres" THEN "PostgresPendingMessageStore"
                                     ELSE "PendingMessageStore",
                    !.sessionSearch = IF backend = "postgres" THEN NULL ELSE "SessionSearch",
                    !.chromaSync = "ChromaSync"]
\* initialize: the backend is chosen; postgres without
\* CLAUDE_MEM_DATABASE_URL throws; the postgres store is constructed and
\* initialized before any field is assigned, so a rejection there leaves
\* every field null; then the stores, the search (null for postgres) and
\* ChromaSync are assigned
Initialize(m, outcome) ==
  LET backend == GetBackendType(m.env)
  IN IF backend = "postgres" /\ ~m.env.CLAUDE_MEM_DATABASE_URL
     THEN [m EXCEPT !.backend = backend, !.initialize = "threw"]
     ELSE IF backend = "postgres" /\ outcome = "migrations failed"
     THEN [m EXCEPT !.backend = backend, !.initialize = "threw"]
     ELSE [m EXCEPT !.backend = backend, !.initialize = "returned",
                    !.sessionStore = IF backend = "postgres" THEN "PostgresSessionStore"
                                     ELSE "SessionStore",
                    !.pendingStore = IF backend = "postgres" THEN "PostgresPendingMessageStore"
                                     ELSE "PendingMessageStore",
                    !.sessionSearch = IF backend = "postgres" THEN NULL ELSE "SessionSearch",
                    !.chromaSync = "ChromaSync"]

\* what a throwing accessor gives its caller
Throws == "throws"
GetSessionStore(m) == IF m.sessionStore = NULL THEN Throws ELSE m.sessionStore
GetSQLiteSessionStore(m) ==
  IF m.sessionStore = NULL THEN Throws
  ELSE IF m.backend = "postgres" THEN Throws
  ELSE m.sessionStore
GetChromaSync(m) == IF m.chromaSync = NULL THEN Throws ELSE m.chromaSync
GetPendingMessageStore(m) == IF m.pendingStore = NULL THEN Throws ELSE m.pendingStore
Accessors == {"getSessionStore", "getSQLiteSessionStore", "getChromaSync", "getPendingMessageStore"}
Access(accessor, m) ==
  CASE accessor = "getSessionStore" -> GetSessionStore(m)
    [] accessor = "getSQLiteSessionStore" -> GetSQLiteSessionStore(m)
    [] accessor = "getChromaSync" -> GetChromaSync(m)
    [] accessor = "getPendingMessageStore" -> GetPendingMessageStore(m)

\* the subsystems close() closes (by the fields that hold them), and an
\* entry of the record of a close() call: the subsystem whose close was
\* called and whether it succeeded; the record also keeps which subsystems
\* existed when close() was called
Subsystems == {"chromaSync", "sessionStore", "sessionSearch"}
Closing(subsystem, failing) == [subsystem |-> subsystem, ok |-> subsystem \notin failing]

\* close, with the set of subsystems whose close fails: ChromaSync is
\* closed inside try / catch (a failure is logged and the field stays);
\* the session store (closePool for postgres) and then the session search
\* are closed outside any try, so a failure there leaves close() at once
Close(m, failing) ==
  LET chroma == IF m.chromaSync = NULL THEN <<>> ELSE <<Closing("chromaSync", failing)>>
      store == IF m.sessionStore = NULL THEN <<>> ELSE <<Closing("sessionStore", failing)>>
      storeThrew == store # <<>> /\ "sessionStore" \in failing
      search == IF storeThrew \/ m.sessionSearch = NULL THEN <<>>
                ELSE <<Closing("sessionSearch", failing)>>
      searchThrew == search # <<>> /\ "sessionSearch" \in failing
  IN [m EXCEPT !.chromaSync = IF "chromaSync" \in failing THEN @ ELSE NULL,
               !.sessionStore = IF storeThrew THEN @ ELSE NULL,
               !.sessionSearch = IF storeThrew \/ searchThrew THEN @ ELSE NULL,
               !.had = {subsystem \in Subsystems : m[subsystem] # NULL},
               !.closed = chroma \o store \o search,
               !.close = IF storeThrew \/ searchThrew THEN "threw" ELSE "returned",
               !.got = <<>>]

(* ------------------ scenario: one DatabaseManager ---------------------- *)
\* A DatabaseManager under any environment: initialize() is called once,
\* close() any number of times, the accessors at any time.
managerRest == <<maxRetries, rows, nextId, now, calls, enqueued, scenarioVars, worker,
                 storing, db, timeline, repl, fanOut, importing>>

ManagerInit ==
  /\ maxRetries = DefaultMaxRetries
  /\ QueueInit
  /\ ScenarioIdle
  /\ worker = NoWorker
  /\ db = EmptyDb
  /\ storing = [c \in Storers |-> NotStoring]
  /\ timeline = NoTimeline
  /\ repl = NoReplication(<<DefaultPrimaryPort>>)
  /\ fanOut = NoFanOut
  /\ importing = NoImport
  /\ \E env \in Environments : manager = NewManager(env)

ManagerInitialize ==
  /\ manager.initialize = "not called"
  /\ \E outcome \in InitializeOutcomes : manager' = Initialize(manager, outcome)
  /\ UNCHANGED managerRest

ManagerClose ==
  /\ \E failing \in SUBSET Subsystems : manager' = Close(manager, failing)
  /\ UNCHANGED managerRest

ManagerAccess ==
  /\ \E accessor \in Accessors :
       manager' = [manager EXCEPT !.got = <<accessor, Access(accessor, manager)>>]
  /\ UNCHANGED managerRest

ManagerNext ==
  \/ ManagerInitialize
  \/ ManagerClose
  \/ ManagerAccess

SpecManager == ManagerInit /\ [][ManagerNext]_vars

C24_NoConnectionStringAbortsInitialize ==
  (/\ manager.env = [CLAUDE_MEM_DATABASE |-> "postgres", CLAUDE_MEM_DATABASE_URL |-> FALSE]
   /\ manager.initialize # "not called") =>
    /\ manager.initialize = "threw"
    /\ manager.sessionStore = NULL /\ manager.pendingStore = NULL
    /\ manager.sessionSearch = NULL /\ manager.chromaSync = NULL
    /\ \A accessor \in Accessors : Access(accessor, manager) = Throws
    /\ manager.got # <<>> => manager.got[2] = Throws

\* postgres without a connection string: initialize threw and the accessor
\* of the embedded store was then called and threw
C24_Witness ==
  /\ manager.env = [CLAUDE_MEM_DATABASE |-> "postgres", CLAUDE_MEM_DATABASE_URL |-> FALSE]
  /\ manager.initialize = "threw"
  /\ manager.got = <<"getSQLiteSessionStore", Throws>>

\* the positions in the record of the latest close() call at which the
\* subsystem's close was called
ClosedAt(subsystem) ==
  {i \in 1..Len(manager.closed) : manager.closed[i].subsystem = subsystem}

\* C25: after a close() call, the close of every subsystem that existed
\* when it was called has been called, whichever closes failed.
C25_CloseContinuesAfterFailure ==
  manager.close # "not called" =>
    \A subsystem \in manager.had : ClosedAt(subsystem) # {}

\* C26: in a close() call ChromaSync's close is called before the session
\* store's, and the session store's close, which closes the backend
\* connection, is the last close called.
C26_ConnectionClosedLast ==
  manager.close # "not called" =>
    /\ \A i \in ClosedAt("chromaSync"), j \in ClosedAt("sessionStore") : i < j
    /\ \A j \in ClosedAt("sessionStore") : j = Len(manager.closed)

(* =================== session status and user prompts =================== *)
\* saveUserPrompt: INSERT INTO user_prompts ... RETURNING id; the table has
\* no UNIQUE constraint, only the FOREIGN KEY on claude_session_id
SaveUserPrompt(d, claudeSessionId, promptNumber, nowEpoch) ==
  IF ~\E r \in d.sessions : r.claude_session_id = claudeSessionId
  THEN [db |-> d, id |-> 0, threw |-> TRUE]
  ELSE [db |-> [d EXCEPT !.prompts = @ \cup
                  {[id |-> Serial(d.prompts), claude_session_id |-> claudeSessionId,
                    prompt_number |-> promptNumber, created_at_epoch |-> nowEpoch]}],
        id |-> Serial(d.prompts), threw |-> FALSE]

\* UPDATE sdk_sessions SET <columns> WHERE id = $n
UpdateSession(d, id, columns) ==
  [d EXCEPT !.sessions = {IF r.id = id THEN columns @@ r ELSE r : r \in d.sessions}]

\* markSessionCompleted: SET status = 'completed', completed_at = ...,
\* completed_at_epoch = ... WHERE id = $3
MarkSessionCompleted(d, id, nowEpoch) ==
  UpdateSession(d, id, [status |-> "completed", completed_at_epoch |-> nowEpoch])

\* markSessionFailed: SET status = 'failed', completed_at = ...,
\* completed_at_epoch = ... WHERE id = $3
MarkSessionFailed(d, id, nowEpoch) ==
  UpdateSession(d, id, [status |-> "failed", completed_at_epoch |-> nowEpoch])

\* reactivateSession: SET status = 'active', user_prompt = $1,
\* worker_port = NULL WHERE id = $2
ReactivateSession(d, id, userPrompt) ==
  UpdateSession(d, id, [status |-> "active", user_prompt |-> userPrompt, worker_port |-> NULL])

(* ------------------ scenario: the life of sessions --------------------- *)
\* Sessions are created, completed, failed and reactivated, and prompts
\* are saved and imported, by any calls in any order (user_prompts capped
\* at MaxRows rows).
SessionDbIds == 1..Cardinality(ExternalIds)

LifecycleInit ==
  /\ maxRetries = DefaultMaxRetries
  /\ QueueInit
  /\ ScenarioIdle
  /\ SideIdle

lifecycleRest == <<maxRetries, rows, nextId, now, calls, enqueued, scenarioVars, worker,
                   storing, timeline, repl, serviceVars>>

LifecycleCreate ==
  /\ \E ext \in ExternalIds : db' = CreateSDKSession(db, ext, "p", "u1").db
  /\ UNCHANGED lifecycleRest

LifecycleComplete ==
  /\ \E id \in SessionDbIds : db' = MarkSessionCompleted(db, id, now)
  /\ UNCHANGED lifecycleRest

LifecycleFail ==
  /\ \E id \in SessionDbIds : db' = MarkSessionFailed(db, id, now)
  /\ UNCHANGED lifecycleRest

LifecycleReactivate ==
  /\ \E id \in SessionDbIds : db' = ReactivateSession(db, id, "u2")
  /\ UNCHANGED lifecycleRest

LifecycleSavePrompt ==
  /\ Cardinality(db.prompts) < MaxRows
  /\ \E ext \in ExternalIds, n \in PromptNumbers :
       db' = SaveUserPrompt(db, ext, n, now).db
  /\ UNCHANGED lifecycleRest

LifecycleImportPrompt ==
  /\ Cardinality(db.prompts) < MaxRows
  /\ \E e \in ImportedPrompts : db' = ImportUserPrompt(db, e).db
  /\ UNCHANGED lifecycleRest

LifecycleTick == TickOp /\ UNCHANGED <<scenarioVars, sideVars>>

LifecycleNext ==
  \/ LifecycleCreate
  \/ LifecycleComplete
  \/ LifecycleFail
  \/ LifecycleReactivate
  \/ LifecycleSavePrompt
  \/ LifecycleImportPrompt
  \/ LifecycleTick

SpecLifecycle == LifecycleInit /\ [][LifecycleNext]_vars

\* C27: user_prompts never holds two rows with the same external session
\* id and prompt number, whatever saveUserPrompt and importUserPrompt
\* calls were made.
C27_OnePromptPerSessionAndNumber ==
  \A ext \in ExternalIds, n \in PromptNumbers :
    Cardinality({r \in db.prompts : r.claude_session_id = ext /\ r.prompt_number = n}) <= 1

\* the status changes the documented life of a session allows
SessionEdges ==
  { <<"active", "completed">>, <<"active", "failed">>,
    <<"completed", "active">>, <<"failed", "active">> }

\* C28: every change of a session's status is active -> completed,
\* active -> failed, completed -> active or failed -> active; no failed
\* session becomes completed and no completed one failed in one step.
C28_SessionStatusFollowsLifecycle ==
  [][\A r \in db.sessions, q \in db'.sessions :
       (r.id = q.id /\ r.status # q.status) => <<r.status, q.status>> \in SessionEdges]_vars

(* ========================= the import handler ========================== *)
\* the bodies of POST /api/import: each of sessions, summaries,
\* observations and prompts a list of entities of the export file
ImportBodies ==
  [sessions : {<<>>} \cup {<<e>> : e \in ImportedSessions} \cup
              {<<e, f>> : e \in {g \in ImportedSessions : g.claude_session_id = "s1"},
                          f \in {g \in ImportedSessions : g.claude_session_id = "s2"}},
   summaries : {<<>>} \cup {<<e>> : e \in {g \in ImportedSummaries :
                                             g.sdk_session_id = "s1" /\ g.prompt_number = 1}},
   observations : {<<>>} \cup {<<e>> : e \in {g \in ImportedObservations :
                                                /\ g.sdk_session_id = "s1" /\ g.title = "t"
                                                /\ g.created_at_epoch = 10}},
   prompts : {<<>>} \cup {<<e>> : e \in {g \in ImportedPrompts :
                                           g.claude_session_id = "s1" /\ g.prompt_number = 1}}]

\* the store calls of handleImport in the order of its four loops
StoreCalls(body) ==
  [i \in 1..Len(body.sessions) |-> [kind |-> "session", entity |-> body.sessions[i]]] \o
  [i \in 1..Len(body.summaries) |-> [kind |-> "summary", entity |-> body.summaries[i]]] \o
  [i \in 1..Len(body.observations) |->
     [kind |-> "observation", entity |-> body.observations[i]]] \o
  [i \in 1..Len(body.prompts) |-> [kind |-> "prompt", entity |-> body.prompts[i]]]

\* store.import<Kind>(entity) run as one step
CallImport(kind, d, e) ==
  CASE kind = "session" -> ImportSdkSession(d, e)
    [] kind = "summary" -> ImportSessionSummary(d, e)
    [] kind = "observation" -> ImportObservation(d, e)
    [] kind = "prompt" -> ImportUserPrompt(d, e)

\* the first query of an import method, SELECT id ... WHERE <natural key>,
\* finds a row
SelectFinds(kind, d, e) ==
  LET whole == CallImport(kind, d, e) IN ~whole.imported /\ ~whole.threw

\* the second query of an import method, INSERT ... RETURNING id, on the
\* tables as they are when it runs: it violates a constraint (UNIQUE on
\* the session ids, FOREIGN KEY of a child) or adds the row
InsertImported(kind, d, e) ==
  CASE kind = "session" ->
         IF \E r \in d.sessions : \/ r.claude_session_id = e.claude_session_id
                                  \/ r.sdk_session_id = e.sdk_session_id
         THEN Outcome(d, FALSE, 0, TRUE)
         ELSE Outcome([d EXCEPT !.sessions = @ \cup {[id |-> Serial(d.sessions)] @@ e}],
                      TRUE, Serial(d.sessions), FALSE)
    [] kind = "summary" ->
         IF ~HasSession(d, e.sdk_session_id) THEN Outcome(d, FALSE, 0, TRUE)
         ELSE Outcome([d EXCEPT !.summaries = @ \cup {[id |-> Serial(d.summaries)] @@ e}],
                      TRUE, Serial(d.summaries), FALSE)
    [] kind = "observation" ->
         IF ~HasSession(d, e.sdk_session_id) THEN Outcome(d, FALSE, 0, TRUE)
         ELSE Outcome([d EXCEPT !.observations = @ \cup {[id |-> Serial(d.observations)] @@ e}],
                      TRUE, Serial(d.observations), FALSE)
    [] kind = "prompt" ->
         IF ~\E r \in d.sessions : r.claude_session_id = e.claude_session_id
         THEN Outcome(d, FALSE, 0, TRUE)
         ELSE Outcome([d EXCEPT !.prompts = @ \cup {[id |-> Serial(d.prompts)] @@ e}],
                      TRUE, Serial(d.prompts), FALSE)

\* the counters of the handler's response
NoStats == [k \in {"session", "summary", "observation", "prompt"} |->
              [imported |-> 0, skipped |-> 0]]
\* if (result.imported) stats.<kind>Imported++ else stats.<kind>Skipped++
Count(stats, kind, imported) ==
  IF imported THEN [stats EXCEPT ![kind].imported = @ + 1]
  ELSE [stats EXCEPT ![kind].skipped = @ + 1]

\* handleImport on a store whose import methods are synchronous (the
\* embedded store): every call has returned {imported, id} before the
\* next statement runs
RECURSIVE HandleImportSync(_, _, _, _)
HandleImportSync(d, storeCalls, done, stats) ==
  IF Len(done) = Len(storeCalls)
  THEN [db |-> d, calls |-> done, stats |-> stats]
  ELSE LET call == storeCalls[Len(done) + 1]
           result == CallImport(call.kind, d, call.entity)
       IN IF result.threw
          THEN [db |-> d, calls |-> Append(done, call @@ [at |-> "threw"]), stats |-> stats]
          ELSE HandleImportSync(result.db, storeCalls,
                                Append(done, call @@ [at |-> "returned"]),
                                Count(stats, call.kind, result.imported))

\* handleImport on the postgres store, whose import methods are async: a
\* call runs to its first await (the SELECT is sent) and returns a
\* Promise; the handler does not await it, reads result.imported
\* (undefined on a Promise), counts a skip and goes on to the next call
RECURSIVE HandleImportAsync(_, _, _)
HandleImportAsync(storeCalls, started, stats) ==
  IF Len(started) = Len(storeCalls)
  THEN [calls |-> started, stats |-> stats]
  ELSE LET call == storeCalls[Len(started) + 1]
       IN HandleImportAsync(storeCalls, Append(started, call @@ [at |-> "select"]),
                            Count(stats, call.kind, FALSE))

(* ------------------ scenario: import requests -------------------------- *)
\* An initialized DatabaseManager of either backend whose data route
\* receives import requests, one after the other has settled; on postgres
\* the queries of the calls in flight are answered in any order.  The
\* tables as they were when the request arrived are kept beside its calls.
handlerRest == <<maxRetries, rows, nextId, now, calls, enqueued, scenarioVars, worker,
                 storing, timeline, repl, fanOut, manager>>

HandlerInit ==
  /\ maxRetries = DefaultMaxRetries
  /\ QueueInit
  /\ ScenarioIdle
  /\ worker = NoWorker
  /\ db = EmptyDb
  /\ storing = [c \in Storers |-> NotStoring]
  /\ timeline = NoTimeline
  /\ repl = NoReplication(<<DefaultPrimaryPort>>)
  /\ fanOut = NoFanOut
  /\ \E backend \in {"sqlite", "postgres"} :
       manager = Initialize(NewManager([CLAUDE_MEM_DATABASE |-> backend,
                                        CLAUDE_MEM_DATABASE_URL |-> TRUE]), "ok")
  /\ importing = NoImport

\* no import call of the latest request is waiting for a query
Settled ==
  IF importing.at = "idle" THEN TRUE
  ELSE \A i \in 1..Len(importing.calls) : importing.calls[i].at \in {"returned", "threw"}

\* handleImport, from the request to res.json
HandleImport ==
  /\ Settled
  /\ GetSessionStore(manager) # Throws
  /\ \E body \in ImportBodies :
       IF GetSessionStore(manager) = "PostgresSessionStore"
       THEN LET handled == HandleImportAsync(StoreCalls(body), <<>>, NoStats)
            IN /\ importing' = [at |-> "responded", calls |-> handled.calls,
                                stats |-> handled.stats, before |-> db]
               /\ db' = db
       ELSE LET handled == HandleImportSync(db, StoreCalls(body), <<>>, NoStats)
            IN /\ importing' = [at |-> IF Len(handled.calls) > 0 /\
                                          handled.calls[Len(handled.calls)].at = "threw"
                                       THEN "threw" ELSE "responded",
                                calls |-> handled.calls, stats |-> handled.stats,
                                before |-> db]
               /\ db' = handled.db
  /\ UNCHANGED handlerRest

\* the SELECT of a call in flight is answered: a row found resolves the
\* call with imported false, none found sends the INSERT
ImportSelected ==
  /\ importing.at # "idle"
  /\ \E i \in 1..Len(importing.calls) :
       /\ importing.calls[i].at = "select"
       /\ importing' = [importing EXCEPT !.calls[i].at =
            IF SelectFinds(importing.calls[i].kind, db, importing.calls[i].entity)
            THEN "returned" ELSE "insert"]
  /\ UNCHANGED <<db, handlerRest>>

\* the INSERT of a call in flight is answered: the call resolves with
\* imported true, or rejects on a constraint violation
ImportInserted ==
  /\ importing.at # "idle"
  /\ \E i \in 1..Len(importing.calls) :
       /\ importing.calls[i].at = "insert"
       /\ LET result == InsertImported(importing.calls[i].kind, db, importing.calls[i].entity)
          IN /\ db' = result.db
             /\ importing' = [importing EXCEPT !.calls[i].at =
                                IF result.threw THEN "threw" ELSE "returned"]
  /\ UNCHANGED handlerRest

HandlerNext ==
  \/ HandleImport
  \/ ImportSelected
  \/ ImportInserted

SpecHandler == HandlerInit /\ [][HandlerNext]_vars

\* C29: on both backends, whenever a summary, observation or prompt import
\* of a request has been called, every session import of that request has
\* returned.
C29_SessionsImportedBeforeChildren ==
  importing.at # "idle" =>
    \A i \in 1..Len(importing.calls), j \in 1..Len(importing.calls) :
      (importing.calls[i].kind = "session" /\ importing.calls[j].kind # "session")
        => importing.calls[i].at \in {"returned", "threw"}

\* C30: getAllPending(S) returns exactly the pending jobs of session S,
\* each once, by increasing id (the order enqueue assigned the ids in);
\* peekPending(S) returns the first of them, or null when there is none;
\* so a job of S that is pending again after markFailed, retryMessage or a
\* reset is returned before every pending job of S enqueued after it.
\* (Both are single SELECT statements and write nothing.)
C30_PendingReadsAreOldestFirst ==
  \A s \in SessionIds :
    LET all == GetAllPending(rows, s)
        first == PeekPending(rows, s)
    IN /\ \A i \in 1..Len(all) :
            /\ rows[all[i]] # NoRow
            /\ rows[all[i]].session_db_id = s
            /\ rows[all[i]].status = "pending"
       /\ \A id \in Ids :
            (rows[id] # NoRow /\ rows[id].session_db_id = s /\ rows[id].status = "pending")
              => Cardinality({i \in 1..Len(all) : all[i] = id}) = 1
       /\ \A i \in 1..Len(all), j \in 1..Len(all) :
            i < j => all[i] < all[j]
       /\ first = (IF all = <<>> THEN 0 ELSE all[1])

\* a job that failed once is pending again beside a younger pending job of
\* its session: both reads put it first
C30_Witness ==
  \E a, b \in Live :
    /\ a < b
    /\ rows[a].session_db_id = rows[b].session_db_id
    /\ rows[a].status = "pending" /\ rows[a].retry_count > 0
    /\ rows[b].status = "pending" /\ rows[b].retry_count = 0
    /\ PeekPending(rows, rows[a].session_db_id) = a
    /\ GetAllPending(rows, rows[a].session_db_id) = <<a, b>>

\* the table an entity kind is stored in
TableOf(d, kind) ==
  CASE kind = "session" -> d.sessions
    [] kind = "summary" -> d.summaries
    [] kind = "observation" -> d.observations
    [] kind = "prompt" -> d.prompts

\* C31: once an import request has been answered and its imports have
\* ended, on either backend, for each entity kind the imported and skipped
\* counts of the response add up to the number of items submitted, and the
\* imported count is the number of rows the request added.
C31_ImportStatisticsAreExact ==
  (importing.at = "responded" /\ Settled) =>
    \A kind \in {"session", "summary", "observation", "prompt"} :
      /\ importing.stats[kind].imported + importing.stats[kind].skipped =
           Cardinality({i \in 1..Len(importing.calls) : importing.calls[i].kind = kind})
      /\ importing.stats[kind].imported =
           Cardinality(TableOf(db, kind)) - Cardinality(TableOf(importing.before, kind))

(* ------------- scenario: concurrent markFailed calls ------------------- *)
\* Jobs are enqueued and claimed, and NumFailers callers call markFailed
\* on them concurrently: the SELECT and the UPDATE of the calls interleave
\* in any order.
Failers == 1..NumFailers

RaceInit ==
  /\ maxRetries \in RetryLimits
  /\ rows = [id \in Ids |-> NoRow]
  /\ enqueued = [id \in Ids |-> NoRow]
  /\ nextId = 1
  /\ now = 0
  /\ calls = [c \in Failers |-> NoCall]
  /\ ScenarioIdle
  /\ SideIdle

RaceEnqueue ==
  /\ \E s \in SessionIds : EnqueueOp(s, CHOOSE m \in Messages : TRUE)
  /\ UNCHANGED <<scenarioVars, sideVars>>

RaceClaim ==
  /\ \E id \in Ids : MarkProcessingOp(id)
  /\ UNCHANGED <<scenarioVars, sideVars>>

RaceFailRead ==
  /\ \E c \in Failers, id \in Ids : MarkFailedReadOp(c, id)
  /\ UNCHANGED <<scenarioVars, sideVars>>

RaceFailWrite ==
  /\ \E c \in Failers : MarkFailedWriteOp(c)
  /\ UNCHANGED <<scenarioVars, sideVars>>

RaceTick == TickOp /\ UNCHANGED <<scenarioVars, sideVars>>

RaceNext ==
  \/ RaceEnqueue
  \/ RaceClaim
  \/ RaceFailRead
  \/ RaceFailWrite
  \/ RaceTick

SpecRace == RaceInit /\ [][RaceNext]_vars

\* C32: every job has retry_count <= maxRetries, also while concurrent
\* markFailed calls on it are between their SELECT and their UPDATE.
C32_RetryCountAtMostMaxRetries ==
  \A id \in Ids : Exists(id) => rows[id].retry_count <= maxRetries

(* ------------- scenario: the deliveries of one job --------------------- *)
\* One job is enqueued and then claimed, finished, failed and, when the
\* execution uses them, reset, by calls made one at a time; retryMessage
\* is never called.  wins counts the markProcessing calls that moved the
\* job from pending to processing (capped at MaxDeliveries).
DeliverInit ==
  /\ maxRetries \in RetryLimits
  /\ QueueInit
  /\ pairs = 0
  /\ phase \in {"without resets", "with resets"}
  /\ claimants = {}
  /\ wins = 0
  /\ SideIdle

DeliverEnqueue ==
  /\ nextId = TheJob
  /\ \E s \in SessionIds : EnqueueOp(s, CHOOSE m \in Messages : TRUE)
  /\ UNCHANGED <<scenarioVars, sideVars>>

DeliverClaim ==
  /\ wins < MaxDeliveries
  /\ MarkProcessingOp(TheJob)
  /\ wins' = IF rows[TheJob].status = "pending" /\ rows'[TheJob].status = "processing"
             THEN wins + 1 ELSE wins
  /\ UNCHANGED <<pairs, phase, claimants, sideVars>>

DeliverProcessed == MarkProcessedOp(TheJob) /\ UNCHANGED <<scenarioVars, sideVars>>

DeliverFailRead == MarkFailedReadOp(Driver, TheJob) /\ UNCHANGED <<scenarioVars, sideVars>>

DeliverFailWrite == MarkFailedWriteOp(Driver) /\ UNCHANGED <<scenarioVars, sideVars>>

DeliverReset ==
  /\ phase = "with resets"
  /\ \/ \E t \in Thresholds : ResetStuckMessagesOp(t)
     \/ \E t \in Thresholds : RetryAllStuckOp(t)
     \/ \E s \in SessionIds : ResetProcessingToPendingOp(s)
  /\ UNCHANGED <<scenarioVars, sideVars>>

DeliverTick == TickOp /\ UNCHANGED <<scenarioVars, sideVars>>

DeliverNext ==
  \/ DeliverEnqueue
  \/ DeliverClaim
  \/ DeliverProcessed
  \/ DeliverFailRead
  \/ DeliverFailWrite
  \/ DeliverReset
  \/ DeliverTick

SpecDeliver == DeliverInit /\ [][DeliverNext]_vars

HandoffInit ==
  /\ maxRetries \in RetryLimits
  /\ QueueInit
  /\ pairs = 0
  /\ phase = "start"
  /\ claimants = {}
  /\ wins = 0
  /\ SideIdle

HandoffEnqueue ==
  /\ nextId <= TheJob + 1
  /\ \E s \in SessionIds : EnqueueOp(s, CHOOSE m \in Messages : TRUE)
  /\ UNCHANGED <<scenarioVars, sideVars>>

Won == rows[TheJob].status = "pending" /\ rows'[TheJob].status = "processing"

HandoffClaimA ==
  /\ phase = "start"
  /\ MarkProcessingOp(TheJob)
  /\ phase' = IF Won THEN "A claimed" ELSE phase
  /\ claimants' = IF Won THEN {"A"} ELSE claimants
  /\ UNCHANGED <<pairs, wins, sideVars>>

HandoffForceBack ==
  /\ phase = "A claimed"
  /\ \/ \E t \in Thresholds : ResetStuckMessagesOp(t)
     \/ \E t \in Thresholds : RetryAllStuckOp(t)
     \/ \E s \in SessionIds : ResetProcessingToPendingOp(s)
     \/ RetryMessageOp(TheJob)
  /\ phase' = IF rows'[TheJob].status = "pending" THEN "forced back" ELSE phase
  /\ UNCHANGED <<pairs, claimants, wins, sideVars>>

HandoffClaimB ==
  /\ phase = "forced back"
  /\ MarkProcessingOp(TheJob)
  /\ phase' = IF Won THEN "B claimed" ELSE phase
  /\ claimants' = IF Won THEN claimants \cup {"B"} ELSE claimants
  /\ UNCHANGED <<pairs, wins, sideVars>>

\* A's markProcessed(J) after B's claim
HandoffStaleProcessed ==
  /\ phase = "B claimed"
  /\ MarkProcessedOp(TheJob)
  /\ phase' = "A reported"
  /\ UNCHANGED <<pairs, claimants, wins, sideVars>>

\* A's markFailed(J) after B's claim: its SELECT, then its UPDATE
HandoffStaleFailRead ==
  /\ phase = "B claimed"
  /\ MarkFailedReadOp(Driver, TheJob)
  /\ phase' = "A reporting"
  /\ UNCHANGED <<pairs, claimants, wins, sideVars>>

HandoffStaleFailWrite ==
  /\ phase = "A reporting"
  /\ MarkFailedWriteOp(Driver)
  /\ phase' = "A reported"
  /\ UNCHANGED <<pairs, claimants, wins, sideVars>>

\* B's own markProcessed(J), once A has reported
HandoffFinishB ==
  /\ phase = "A reported"
  /\ MarkProcessedOp(TheJob)
  /\ phase' = "B reported"
  /\ UNCHANGED <<pairs, claimants, wins, sideVars>>

HandoffTick == TickOp /\ UNCHANGED <<scenarioVars, sideVars>>

HandoffNext ==
  \/ HandoffEnqueue
  \/ HandoffClaimA
  \/ HandoffForceBack
  \/ HandoffClaimB
  \/ HandoffStaleProcessed
  \/ HandoffStaleFailRead
  \/ HandoffStaleFailWrite
  \/ HandoffFinishB
  \/ HandoffTick

SpecHandoff == HandoffInit /\ [][HandoffNext]_vars

\* C34: once B holds the claim on the job, A's late markProcessed or
\* markFailed changes no row, so the job stays in processing for B.
C34_StaleFinishChangesNothing ==
  [][(phase \in {"B claimed", "A reporting"} /\ phase' = "A reported") => rows' = rows]_vars

(* ------------- the timestamps of a job ---------------------------------- *)
\* C35: every pending job has no start time and every processing job has
\* one, whatever sequence of enqueue, markProcessing, markProcessed,
\* markFailed, retryMessage and resets produced the state.
C35_StartTimeAgreesWithStatus ==
  \A id \in Live :
    /\ rows[id].status = "pending" => rows[id].started_processing_at_epoch = NullEpoch
    /\ rows[id].status = "processing" => rows[id].started_processing_at_epoch # NullEpoch

\* one job is back in pending after a failure, the other is being processed
C35_Witness ==
  \E a, b \in Live :
    /\ rows[a].status = "pending" /\ rows[a].retry_count > 0
    /\ rows[a].started_processing_at_epoch = NullEpoch
    /\ rows[b].status = "processing"
    /\ rows[b].started_processing_at_epoch # NullEpoch

\* C36: a job has a completion time exactly when its status is processed
\* or failed; a job back in pending has none.
C36_CompletionTimeAgreesWithStatus ==
  \A id \in Live :
    rows[id].completed_at_epoch # NullEpoch <=> rows[id].status \in {"processed", "failed"}

(* ------------- scenario: the operator retries a failed job -------------- *)
\* One job goes through the queue operations in any order.  When
\* retryMessage finds it in failed, phase follows what comes next:
\* "retried", then markProcessing ("claimed"), then markFailed
\* ("reporting" between its SELECT and its UPDATE, "reported" after).
ManualInit ==
  /\ maxRetries \in RetryLimits
  /\ QueueInit
  /\ pairs = 0
  /\ phase = "free"
  /\ claimants = {}
  /\ wins = 0
  /\ SideIdle

ManualEnqueue ==
  /\ nextId = TheJob
  /\ \E s \in SessionIds : EnqueueOp(s, CHOOSE m \in Messages : TRUE)
  /\ UNCHANGED <<scenarioVars, sideVars>>

ManualClaim ==
  /\ phase \in {"free", "retried"}
  /\ MarkProcessingOp(TheJob)
  /\ phase' = IF phase = "retried" /\ Won THEN "claimed" ELSE phase
  /\ UNCHANGED <<pairs, claimants, wins, sideVars>>

ManualProcessed ==
  /\ phase = "free"
  /\ MarkProcessedOp(TheJob)
  /\ UNCHANGED <<scenarioVars, sideVars>>

ManualFailRead ==
  /\ phase \in {"free", "claimed"}
  /\ MarkFailedReadOp(Driver, TheJob)
  /\ phase' = IF phase = "claimed" THEN "reporting" ELSE phase
  /\ UNCHANGED <<pairs, claimants, wins, sideVars>>

ManualFailWrite ==
  /\ phase \in {"free", "reporting"}
  /\ MarkFailedWriteOp(Driver)
  /\ phase' = IF phase = "reporting" THEN "reported" ELSE phase
  /\ UNCHANGED <<pairs, claimants, wins, sideVars>>

ManualRetry ==
  /\ phase = "free"
  /\ RetryMessageOp(TheJob)
  /\ phase' = IF rows[TheJob].status = "failed" /\ calls[Driver] = NoCall
              THEN "retried" ELSE phase
  /\ UNCHANGED <<pairs, claimants, wins, sideVars>>

ManualReset ==
  /\ phase = "free"
  /\ \/ \E t \in Thresholds : ResetStuckMessagesOp(t)
     \/ \E t \in Thresholds : RetryAllStuckOp(t)
     \/ \E s \in SessionIds : ResetProcessingToPendingOp(s)
  /\ UNCHANGED <<scenarioVars, sideVars>>

ManualTick == TickOp /\ UNCHANGED <<scenarioVars, sideVars>>

ManualNext ==
  \/ ManualEnqueue
  \/ ManualClaim
  \/ ManualProcessed
  \/ ManualFailRead
  \/ ManualFailWrite
  \/ ManualRetry
  \/ ManualReset
  \/ ManualTick

SpecManual == ManualInit /\ [][ManualNext]_vars

\* the step is the UPDATE of a markFailed call that takes the retry branch
RetryBranchTaken ==
  /\ calls[Driver] # NoCall
  /\ calls'[Driver] = NoCall
  /\ ShouldRetry(calls[Driver].retry_count)

\* C37: retry_count never decreases; only the retry branch of markFailed
\* changes it, by one, so retryMessage and the resets leave it alone; and
\* a failed job put back to pending by retryMessage is failed again, with
\* the same retry_count, after its next markProcessing and markFailed.
C37_RetryCountOnlyGrowsByFailures ==
  [][(rows[TheJob].status # "absent" /\ rows'[TheJob].status # "absent") =>
       /\ rows'[TheJob].retry_count >= rows[TheJob].retry_count
       /\ rows'[TheJob].retry_count # rows[TheJob].retry_count =>
            /\ RetryBranchTaken
            /\ rows'[TheJob].retry_count = rows[TheJob].retry_count + 1
            /\ rows'[TheJob].status = "pending"
       /\ (phase = "reporting" /\ phase' = "reported") =>
            /\ rows'[TheJob].status = "failed"
            /\ rows'[TheJob].retry_count = rows[TheJob].retry_count]_vars

\* the failed job was retried by the operator, claimed, and failed again
C37_Witness ==
  /\ phase = "reported"
  /\ rows[TheJob].status = "failed"
  /\ rows[TheJob].retry_count >= maxRetries

(* ------------- the pending-work reads ----------------------------------- *)
\* getPendingCount(sessionDbId):
\*   SELECT COUNT(*) ... WHERE session_db_id = $1 AND status IN ('pending', 'processing')
\* read back with parseInt(count || '0', 10)
GetPendingCount(t, s) ==
  Cardinality({id \in Ids : /\ t[id] # NoRow
                            /\ t[id].session_db_id = s
                            /\ t[id].status \in {"pending", "processing"}})

\* mutant: only the pending rows are looked at
HasAnyPendingWorkPendingOnly(t) ==
  Cardinality({id \in Ids : t[id] # NoRow /\ t[id].status = "pending"}) > 0

\* hasAnyPendingWork():
\*   SELECT COUNT(*) ... WHERE status IN ('pending', 'processing');  count > 0
HasAnyPendingWork(t) ==
  Cardinality({id \in Ids : t[id] # NoRow /\ t[id].status \in {"pending", "processing"}}) > 0

\* getSessionsWithPendingMessages():
\*   SELECT DISTINCT session_db_id ... WHERE status IN ('pending', 'processing')
\* (no ORDER BY: the rows are taken as a set)
GetSessionsWithPendingMessages(t) ==
  {t[id].session_db_id :
     id \in {i \in Ids : t[i] # NoRow /\ t[i].status \in {"pending", "processing"}}}

\* the jobs of session s that are pending or processing
Unfinished(s) ==
  {id \in Live : rows[id].session_db_id = s /\ rows[id].status \in {"pending", "processing"}}

\* C38: hasAnyPendingWork() holds exactly when
\* getSessionsWithPendingMessages() is non-empty, a session is in that list
\* exactly when its getPendingCount is positive, and the reads count the
\* jobs in pending or processing and no others.
C38_PendingWorkReadsAgree ==
  /\ HasAnyPendingWork(rows) <=> GetSessionsWithPendingMessages(rows) # {}
  /\ HasAnyPendingWork(rows) <=> \E s \in SessionIds : Unfinished(s) # {}
  /\ GetSessionsWithPendingMessages(rows) \subseteq SessionIds
  /\ \A s \in SessionIds :
       /\ s \in GetSessionsWithPendingMessages(rows) <=> GetPendingCount(rows, s) > 0
       /\ GetPendingCount(rows, s) = Cardinality(Unfinished(s))

\* one session has only a failed job, the other a job in processing
C38_Witness ==
  \E a, b \in Live :
    /\ rows[a].status = "failed"
    /\ rows[b].status = "processing"
    /\ rows[a].session_db_id # rows[b].session_db_id
    /\ HasAnyPendingWork(rows)
    /\ GetSessionsWithPendingMessages(rows) = {rows[b].session_db_id}
    /\ GetPendingCount(rows, rows[a].session_db_id) = 0

(* ------------- the accessors after close() ------------------------------ *)
\* C39: once close() has returned, getSessionStore() and
\* getPendingMessageStore() throw, and every call made of them since threw.
C39_NoStoreAfterClose ==
  manager.close = "returned" =>
    /\ GetSessionStore(manager) = Throws
    /\ GetPendingMessageStore(manager) = Throws
    /\ (manager.got # <<>> /\ manager.got[1] \in {"getSessionStore", "getPendingMessageStore"}) =>
         manager.got[2] = Throws

(* ------------- scenario: a replicated write applied twice --------------- *)
\* A postgres store receives the same entity in two import calls that run
\* at the same time (the write and its replay): importing holds the two
\* calls and the tables as they were before them, and ImportSelected and
\* ImportInserted answer their queries in any order.  The entities have no
\* null key column.
ReplayedEntities(kind) ==
  CASE kind = "session" -> ImportedSessions
    [] kind = "observation" -> {e \in ImportedObservations : e.title # NULL}
    [] kind = "prompt" -> ImportedPrompts

ReplayInit ==
  /\ maxRetries = DefaultMaxRetries
  /\ QueueInit
  /\ ScenarioIdle
  /\ worker = NoWorker
  /\ db = EmptyDb
  /\ storing = [c \in Storers |-> NotStoring]
  /\ timeline = NoTimeline
  /\ repl = NoReplication(<<DefaultPrimaryPort>>)
  /\ fanOut = NoFanOut
  /\ manager = Initialize(NewManager([CLAUDE_MEM_DATABASE |-> "postgres",
                                      CLAUDE_MEM_DATABASE_URL |-> TRUE]), "ok")
  /\ importing = NoImport

\* the two calls start: each sends its SELECT
ReplayCall ==
  /\ Settled
  /\ GetSessionStore(manager) = "PostgresSessionStore"
  /\ \E kind \in {"session", "observation", "prompt"} :
       /\ Cardinality(TableOf(db, kind)) < MaxRows
       /\ \E e \in ReplayedEntities(kind) :
            importing' = [at |-> "replayed", before |-> db, stats |-> NoStats,
                          calls |-> <<[kind |-> kind, entity |-> e, at |-> "select"],
                                      [kind |-> kind, entity |-> e, at |-> "select"]>>]
  /\ UNCHANGED <<db, handlerRest>>

ReplayNext ==
  \/ ReplayCall
  \/ ImportSelected
  \/ ImportInserted

SpecReplay == ReplayInit /\ [][ReplayNext]_vars

\* the rows the two calls in flight or ended have added to their table
AddedByReplay ==
  Cardinality(TableOf(db, importing.calls[1].kind)) -
    Cardinality(TableOf(importing.before, importing.calls[1].kind))

\* C40: two concurrent import calls for the same entity add at most one
\* row, for importSdkSession, importObservation and importUserPrompt, in
\* every interleaving of their SELECT and their INSERT.
C40_ConcurrentImportsAddOneRow ==
  importing.at = "replayed" => AddedByReplay <= 1

\* the sessions table alone: UNIQUE (claude_session_id) rejects the second
\* INSERT, so two concurrent importSdkSession calls add at most one row
ConcurrentSessionImportsAddOneRow ==
  (importing.at = "replayed" /\ importing.calls[1].kind = "session") => AddedByReplay <= 1

====
